---- MODULE Spec2Model ----
(***************************************************************************)
(* Spaced-repetition engine of the NARESHKA backend: the interval          *)
(* calculator (utils/intervalCalculator.ts), the review service            *)
(* (services/spacedRepetition.ts) and the progress table it writes.        *)
(*                                                                         *)
(* Units.  Time is counted in minutes (the code counts milliseconds; every *)
(* duration it adds is a whole number of minutes).  Ease factors and the   *)
(* multipliers of the configuration are counted in hundredths, which is    *)
(* the resolution of the easeFactor column, DECIMAL(3,2).  The code        *)
(* multiplies IEEE-754 doubles before Math.floor; the two operators        *)
(* FloorIntervalTimesEase and FloorIntervalTimesEaseBonus reproduce the    *)
(* results of the double arithmetic, which for some operands is one less   *)
(* than the floor of the exact product.                                    *)
(***************************************************************************)
EXTENDS Integers, Sequences, FiniteSets, TLC

VARIABLES
  catalog,    \* ids of the rows of the TheoryCard table
  progress,   \* rows of the UserTheoryProgress table
  clock,      \* wall-clock time, in minutes
  pc,         \* position of each reviewCard call in flight
  call,       \* local variables of each reviewCard call
  requests,   \* number of requests the routes have accepted
  calcIn,     \* arguments of a direct use of the calculator
  calcOut,    \* its ReviewResult
  calcOpts    \* its NextReviewOptions

calcVars == <<calcIn, calcOut, calcOpts>>

svcVars == <<catalog, progress, clock, pc, call, requests>>

vars == <<catalog, progress, clock, pc, call, requests, calcIn, calcOut, calcOpts>>

\* ------------------------------------------------------------------------
\* Types and configuration (types/spacedRepetition.ts)
\* ------------------------------------------------------------------------

Rating == {"again", "hard", "good", "easy"}

CardState == {"NEW", "LEARNING", "REVIEW", "RELEARNING"}

DEFAULT_CONFIG ==
  [ learningSteps      |-> <<1, 10>>,
    graduatingInterval |-> 1,
    easyInterval       |-> 4,
    minEaseFactor      |-> 130,
    maxEaseFactor      |-> 250,
    initialEaseFactor  |-> 250,
    lapseMultiplier    |-> 10,
    hardMultiplier     |-> 120,
    easyBonus          |-> 130 ]

\* A configuration with a single learning step, as the constructor of
\* IntervalCalculator accepts any SpacedRepetitionConfig.
SINGLE_STEP_CONFIG == [DEFAULT_CONFIG EXCEPT !.learningSteps = <<1>>]

Configs == {DEFAULT_CONFIG, SINGLE_STEP_CONFIG}

MinutesPerDay == 1440

\* ------------------------------------------------------------------------
\* Arithmetic helpers
\* ------------------------------------------------------------------------

Max(a, b) == IF a >= b THEN a ELSE b

Min(a, b) == IF a <= b THEN a ELSE b

\* learningSteps[i] of the code (zero-based); undefined outside the array.
HasStep(cfg, i) == i >= 0 /\ i < Len(cfg.learningSteps)

\* learningSteps[i] || learningSteps[0]: undefined and 0 are both falsy.
StepOrFirst(cfg, i) ==
  IF HasStep(cfg, i) /\ cfg.learningSteps[i + 1] # 0
  THEN cfg.learningSteps[i + 1]
  ELSE cfg.learningSteps[1]

\* Operands (interval, ease in hundredths) for which the double product
\* interval * ease is below the exact product, itself a whole number, so
\* that Math.floor returns one less.  ease is the double nearest to the
\* stored decimal.  The table covers the intervals 1..180 and the ease
\* factors that are multiples of 0.05 between 1.30 and 2.50.
EaseProductShortfall ==
  { <<45, 140>>, <<50, 230>>, <<60, 205>>, <<85, 140>>, <<90, 140>>,
    <<90, 230>>, <<100, 205>>, <<100, 230>>, <<110, 230>>, <<120, 205>>,
    <<165, 140>>, <<170, 140>>, <<170, 230>>, <<175, 140>>, <<180, 140>>,
    <<180, 205>>, <<180, 230>> }

\* The same for interval * Math.min(max, ease + 0.15) * easyBonus, keyed by
\* the ease factor before the increase.
EaseBonusProductShortfall ==
  { <<50, 165>>, <<100, 165>>, <<150, 205>> }

\* The steps (ease factor of the stored decimal, rating) of handleReviewCard
\* whose new ease factor, currentEaseFactor - 0.2, - 0.15 or + 0.15 in
\* doubles, is not the double nearest to its two-decimal value: 2.05 + 0.15
\* is 2.1999999999999997.  The column easeFactor is DECIMAL(3,2), so the
\* stored value is the two-decimal one.  Each two-decimal value that a
\* step misses is missed on one side only, by one unit in the last place.
EaseStepsOffGrid ==
  { <<140, "easy">>, <<145, "easy">>, <<155, "hard">>, <<160, "again">>,
    <<160, "hard">>, <<165, "easy">>, <<170, "easy">>, <<180, "hard">>,
    <<185, "again">>, <<185, "hard">>, <<205, "again">>, <<205, "easy">>,
    <<210, "again">>, <<210, "hard">>, <<220, "hard">>, <<230, "again">>,
    <<230, "easy">>, <<240, "again">>, <<245, "hard">> }

\* Operands (interval, two-decimal ease in hundredths) for which
\* Math.max(1, Math.floor(interval * ease)) of the double an off-grid step
\* yields is one below, or one above, that of the double nearest to the
\* two-decimal value.  Intervals 1..180.
OffGridProductBelow ==
  { <<5, 160>>, <<5, 220>>, <<10, 160>>, <<10, 210>>, <<10, 220>>,
    <<15, 160>>, <<15, 180>>, <<15, 220>>, <<20, 155>>, <<20, 160>>,
    <<20, 210>>, <<20, 220>>, <<20, 245>>, <<25, 180>>, <<25, 220>>,
    <<30, 160>>, <<30, 180>>, <<30, 210>>, <<30, 220>>, <<35, 160>>,
    <<35, 180>>, <<35, 220>>, <<40, 155>>, <<40, 160>>, <<40, 210>>,
    <<40, 220>>, <<40, 245>>, <<45, 180>>, <<45, 220>>, <<50, 180>>,
    <<50, 210>>, <<50, 220>>, <<55, 160>>, <<55, 180>>, <<55, 220>>,
    <<60, 155>>, <<60, 160>>, <<60, 180>>, <<60, 185>>, <<60, 210>>,
    <<60, 220>>, <<60, 245>>, <<65, 160>>, <<65, 180>>, <<65, 220>>,
    <<70, 160>>, <<70, 180>>, <<70, 210>>, <<70, 220>>, <<75, 160>>,
    <<75, 220>>, <<80, 155>>, <<80, 160>>, <<80, 210>>, <<80, 220>>,
    <<80, 245>>, <<85, 180>>, <<85, 220>>, <<90, 180>>, <<90, 210>>,
    <<90, 220>>, <<95, 180>>, <<95, 220>>, <<100, 155>>, <<100, 180>>,
    <<100, 210>>, <<100, 220>>, <<100, 245>>, <<105, 180>>, <<105, 220>>,
    <<110, 160>>, <<110, 180>>, <<110, 210>>, <<110, 220>>, <<115, 160>>,
    <<115, 180>>, <<115, 220>>, <<120, 155>>, <<120, 160>>, <<120, 180>>,
    <<120, 185>>, <<120, 210>>, <<120, 220>>, <<120, 245>>, <<125, 160>>,
    <<125, 180>>, <<125, 220>>, <<130, 160>>, <<130, 180>>, <<130, 210>>,
    <<130, 220>>, <<135, 160>>, <<135, 180>>, <<135, 220>>, <<140, 155>>,
    <<140, 160>>, <<140, 180>>, <<140, 210>>, <<140, 220>>, <<140, 245>>,
    <<145, 160>>, <<145, 220>>, <<150, 160>>, <<150, 210>>, <<150, 220>>,
    <<155, 160>>, <<155, 220>>, <<160, 155>>, <<160, 160>>, <<160, 210>>,
    <<160, 220>>, <<160, 245>>, <<165, 180>>, <<165, 220>>, <<170, 180>>,
    <<170, 210>>, <<170, 220>>, <<175, 180>>, <<175, 220>>, <<180, 155>>,
    <<180, 180>>, <<180, 210>>, <<180, 220>>, <<180, 245>> }

OffGridProductAbove ==
  { <<45, 140>>, <<50, 230>>, <<60, 205>>, <<85, 140>>, <<90, 140>>,
    <<90, 230>>, <<100, 205>>, <<100, 230>>, <<110, 230>>, <<120, 205>>,
    <<165, 140>>, <<170, 140>>, <<170, 230>>, <<175, 140>>, <<180, 140>>,
    <<180, 205>>, <<180, 230>> }

\* The same for Math.floor(interval * Math.min(max, ease + 0.15) * easyBonus).
OffGridBonusProductBelow ==
  { <<5, 185>>, <<10, 185>>, <<20, 185>>, <<35, 185>>, <<40, 160>>,
    <<40, 185>>, <<40, 210>>, <<45, 185>>, <<65, 185>>, <<70, 185>>,
    <<75, 185>>, <<80, 160>>, <<80, 185>>, <<80, 210>>, <<85, 185>>,
    <<90, 185>>, <<95, 185>>, <<100, 155>>, <<120, 210>>, <<130, 185>>,
    <<135, 185>>, <<140, 185>>, <<145, 185>>, <<150, 185>>, <<155, 185>>,
    <<160, 160>>, <<160, 185>>, <<160, 210>>, <<165, 185>>, <<170, 185>>,
    <<175, 185>>, <<180, 185>> }

OffGridBonusProductAbove ==
  { <<50, 165>>, <<100, 165>>, <<150, 205>> }

\* What the interval of rating for a REVIEW card differs by when the ease
\* factor passed is the off-grid double in place of the stored decimal.
OffGridDelta(rating, interval, ease) ==
  CASE rating = "good" ->
         IF <<interval, ease>> \in OffGridProductBelow THEN 0 - 1
         ELSE IF <<interval, ease>> \in OffGridProductAbove THEN 1 ELSE 0
    [] rating = "easy" ->
         IF <<interval, ease>> \in OffGridBonusProductBelow THEN 0 - 1
         ELSE IF <<interval, ease>> \in OffGridBonusProductAbove THEN 1 ELSE 0
    [] OTHER -> 0

\* Math.floor(interval * ease)
FloorIntervalTimesEase(interval, ease) ==
  ((interval * ease) \div 100)
    - (IF <<interval, ease>> \in EaseProductShortfall THEN 1 ELSE 0)

\* An 'easy' interval that multiplies by the bonus alone.
FloorIntervalTimesEaseBonus_BonusOnly(cfg, interval, ease, newEase) ==
  (interval * cfg.easyBonus) \div 100

\* Math.floor(interval * newEase * easyBonus), newEase = min(max, ease + 0.15)
FloorIntervalTimesEaseBonus(cfg, interval, ease, newEase) ==
  ((interval * newEase * cfg.easyBonus) \div 10000)
    - (IF <<interval, ease>> \in EaseBonusProductShortfall THEN 1 ELSE 0)

\* Math.floor(interval * multiplier) for hardMultiplier and lapseMultiplier:
\* the double product floors to the exact value for every interval up to
\* 200000.
FloorIntervalTimes(interval, multiplier) == (interval * multiplier) \div 100

\* Math.floor(daysLate * 0.25): a multiple of a power of two, exact.
FloorQuarter(daysLate) == (daysLate * 25) \div 100

\* Math.max(minEaseFactor, currentEaseFactor - delta), delta 0.2 or 0.15
DecreasedEase_Unclamped(cfg, ease, delta) == ease - delta

DecreasedEase(cfg, ease, delta) == Max(cfg.minEaseFactor, ease - delta)

\* Math.min(maxEaseFactor, currentEaseFactor + 0.15)
IncreasedEase(cfg, ease) == Min(cfg.maxEaseFactor, ease + 15)

LapsedInterval_NoMinimum(cfg, currentInterval) ==
  FloorIntervalTimes(currentInterval, cfg.lapseMultiplier)

LapsedInterval_HardMultiplier(cfg, currentInterval) ==
  Max(1, FloorIntervalTimes(currentInterval, cfg.hardMultiplier))

\* Math.max(1, Math.floor(currentInterval * lapseMultiplier))
LapsedInterval(cfg, currentInterval) ==
  Max(1, FloorIntervalTimes(currentInterval, cfg.lapseMultiplier))

addMinutes_AsDays(date, minutes) == date + minutes * MinutesPerDay

addMinutes(date, minutes) == date + minutes

\* A day count added to the date as minutes.
addDays_AsMinutes(date, days) == date + days

addDays(date, days) == date + days * MinutesPerDay

\* ------------------------------------------------------------------------
\* IntervalCalculator (utils/intervalCalculator.ts)
\* ------------------------------------------------------------------------

Result(interval, due, ease, state, step, lapse) ==
  [ newInterval         |-> interval,
    newDueDate          |-> due,
    newEaseFactor       |-> ease,
    newCardState        |-> state,
    newLearningStep     |-> step,
    lapseCountIncrement |-> lapse ]

handleNewCard(cfg, rating, now) ==
  CASE rating = "again" ->
         Result(cfg.learningSteps[1], addMinutes(now, cfg.learningSteps[1]),
                cfg.initialEaseFactor, "LEARNING", 0, 0)
    [] rating = "hard" ->
         Result(cfg.learningSteps[1], addMinutes(now, cfg.learningSteps[1]),
                cfg.initialEaseFactor, "LEARNING", 0, 0)
    [] rating = "good" ->
         LET nextStep == StepOrFirst(cfg, 1)
         IN  Result(nextStep, addMinutes(now, nextStep),
                    cfg.initialEaseFactor, "LEARNING", 1, 0)
    [] rating = "easy" ->
         Result(cfg.easyInterval, addDays(now, cfg.easyInterval),
                cfg.initialEaseFactor, "REVIEW", 0, 0)

handleLearningCard_HardRestarts(cfg, rating, currentStep, now) ==
  CASE rating = "again" ->
         Result(cfg.learningSteps[1], addMinutes(now, cfg.learningSteps[1]),
                cfg.initialEaseFactor, "LEARNING", 0, 0)
    [] rating = "hard" ->
         LET currentStepInterval == StepOrFirst(cfg, currentStep)
         IN  Result(currentStepInterval, addMinutes(now, currentStepInterval),
                    cfg.initialEaseFactor, "LEARNING", 0, 0)
    [] rating = "good" ->
         LET nextStep == currentStep + 1
         IN  IF nextStep >= Len(cfg.learningSteps)
             THEN Result(cfg.graduatingInterval,
                         addDays(now, cfg.graduatingInterval),
                         cfg.initialEaseFactor, "REVIEW", 0, 0)
             ELSE Result(cfg.learningSteps[nextStep + 1],
                         addMinutes(now, cfg.learningSteps[nextStep + 1]),
                         cfg.initialEaseFactor, "LEARNING", nextStep, 0)
    [] rating = "easy" ->
         Result(cfg.easyInterval, addDays(now, cfg.easyInterval),
                cfg.initialEaseFactor, "REVIEW", 0, 0)

handleLearningCard_AgainLowersEase(cfg, rating, currentStep, now) ==
  CASE rating = "again" ->
         Result(cfg.learningSteps[1], addMinutes(now, cfg.learningSteps[1]),
                cfg.initialEaseFactor - 20, "LEARNING", 0, 0)
    [] rating = "hard" ->
         LET currentStepInterval == StepOrFirst(cfg, currentStep)
         IN  Result(currentStepInterval, addMinutes(now, currentStepInterval),
                    cfg.initialEaseFactor, "LEARNING", currentStep, 0)
    [] rating = "good" ->
         LET nextStep == currentStep + 1
         IN  IF nextStep >= Len(cfg.learningSteps)
             THEN Result(cfg.graduatingInterval,
                         addDays(now, cfg.graduatingInterval),
                         cfg.initialEaseFactor, "REVIEW", 0, 0)
             ELSE Result(cfg.learningSteps[nextStep + 1],
                         addMinutes(now, cfg.learningSteps[nextStep + 1]),
                         cfg.initialEaseFactor, "LEARNING", nextStep, 0)
    [] rating = "easy" ->
         Result(cfg.easyInterval, addDays(now, cfg.easyInterval),
                cfg.initialEaseFactor, "REVIEW", 0, 0)

handleLearningCard(cfg, rating, currentStep, now) ==
  CASE rating = "again" ->
         Result(cfg.learningSteps[1], addMinutes(now, cfg.learningSteps[1]),
                cfg.initialEaseFactor, "LEARNING", 0, 0)
    [] rating = "hard" ->
         LET currentStepInterval == StepOrFirst(cfg, currentStep)
         IN  Result(currentStepInterval, addMinutes(now, currentStepInterval),
                    cfg.initialEaseFactor, "LEARNING", currentStep, 0)
    [] rating = "good" ->
         LET nextStep == currentStep + 1
         IN  IF nextStep >= Len(cfg.learningSteps)
             THEN Result(cfg.graduatingInterval,
                         addDays(now, cfg.graduatingInterval),
                         cfg.initialEaseFactor, "REVIEW", 0, 0)
             ELSE Result(cfg.learningSteps[nextStep + 1],
                         addMinutes(now, cfg.learningSteps[nextStep + 1]),
                         cfg.initialEaseFactor, "LEARNING", nextStep, 0)
    [] rating = "easy" ->
         Result(cfg.easyInterval, addDays(now, cfg.easyInterval),
                cfg.initialEaseFactor, "REVIEW", 0, 0)

handleReviewCard_AgainDecayed(cfg, rating, currentInterval, currentEaseFactor, daysLate, now) ==
  LET adjustedInterval == Max(1, currentInterval + FloorQuarter(daysLate))
  IN  CASE rating = "again" ->
             LET newInterval ==
                   Max(1, FloorIntervalTimes(adjustedInterval, cfg.lapseMultiplier))
             IN  Result(newInterval, addMinutes(now, newInterval),
                        DecreasedEase(cfg, currentEaseFactor, 20),
                        "RELEARNING", 0, 1)
        [] rating = "hard" ->
             LET newInterval ==
                   Max(1, FloorIntervalTimes(adjustedInterval, cfg.hardMultiplier))
             IN  Result(newInterval, addDays(now, newInterval),
                        DecreasedEase(cfg, currentEaseFactor, 15),
                        "REVIEW", 0, 0)
        [] rating = "good" ->
             LET newInterval ==
                   Max(1, FloorIntervalTimesEase(adjustedInterval, currentEaseFactor))
             IN  Result(newInterval, addDays(now, newInterval),
                        currentEaseFactor, "REVIEW", 0, 0)
        [] rating = "easy" ->
             LET newInterval ==
                   Max(1, FloorIntervalTimesEaseBonus(
                            cfg, adjustedInterval, currentEaseFactor,
                            IncreasedEase(cfg, currentEaseFactor)))
             IN  Result(newInterval, addDays(now, newInterval),
                        IncreasedEase(cfg, currentEaseFactor),
                        "REVIEW", 0, 0)

\* A review handler whose 'again' sends the card back to LEARNING.
handleReviewCard_LapseToLearning(cfg, rating, currentInterval, currentEaseFactor, daysLate, now) ==
  LET adjustedInterval == Max(1, currentInterval + FloorQuarter(daysLate))
  IN  CASE rating = "again" ->
             Result(cfg.learningSteps[1], addMinutes(now, cfg.learningSteps[1]),
                    DecreasedEase(cfg, currentEaseFactor, 20),
                    "LEARNING", 0, 1)
        [] rating = "hard" ->
             LET newInterval ==
                   Max(1, FloorIntervalTimes(adjustedInterval, cfg.hardMultiplier))
             IN  Result(newInterval, addDays(now, newInterval),
                        DecreasedEase(cfg, currentEaseFactor, 15),
                        "REVIEW", 0, 0)
        [] rating = "good" ->
             LET newInterval ==
                   Max(1, FloorIntervalTimesEase(adjustedInterval, currentEaseFactor))
             IN  Result(newInterval, addDays(now, newInterval),
                        currentEaseFactor, "REVIEW", 0, 0)
        [] rating = "easy" ->
             LET newInterval ==
                   Max(1, FloorIntervalTimesEaseBonus(
                            cfg, adjustedInterval, currentEaseFactor,
                            IncreasedEase(cfg, currentEaseFactor)))
             IN  Result(newInterval, addDays(now, newInterval),
                        IncreasedEase(cfg, currentEaseFactor),
                        "REVIEW", 0, 0)

\* A review handler whose 'again' leaves the review interval in the record.
handleReviewCard_AgainKeepsInterval(cfg, rating, currentInterval, currentEaseFactor, daysLate, now) ==
  LET adjustedInterval == Max(1, currentInterval + FloorQuarter(daysLate))
  IN  CASE rating = "again" ->
             Result(adjustedInterval, addMinutes(now, cfg.learningSteps[1]),
                    DecreasedEase(cfg, currentEaseFactor, 20),
                    "RELEARNING", 0, 1)
        [] rating = "hard" ->
             LET newInterval ==
                   Max(1, FloorIntervalTimes(adjustedInterval, cfg.hardMultiplier))
             IN  Result(newInterval, addDays(now, newInterval),
                        DecreasedEase(cfg, currentEaseFactor, 15),
                        "REVIEW", 0, 0)
        [] rating = "good" ->
             LET newInterval ==
                   Max(1, FloorIntervalTimesEase(adjustedInterval, currentEaseFactor))
             IN  Result(newInterval, addDays(now, newInterval),
                        currentEaseFactor, "REVIEW", 0, 0)
        [] rating = "easy" ->
             LET newInterval ==
                   Max(1, FloorIntervalTimesEaseBonus(
                            cfg, adjustedInterval, currentEaseFactor,
                            IncreasedEase(cfg, currentEaseFactor)))
             IN  Result(newInterval, addDays(now, newInterval),
                        IncreasedEase(cfg, currentEaseFactor),
                        "REVIEW", 0, 0)

handleReviewCard(cfg, rating, currentInterval, currentEaseFactor, daysLate, now) ==
  LET adjustedInterval == Max(1, currentInterval + FloorQuarter(daysLate))
  IN  CASE rating = "again" ->
             Result(cfg.learningSteps[1], addMinutes(now, cfg.learningSteps[1]),
                    DecreasedEase(cfg, currentEaseFactor, 20),
                    "RELEARNING", 0, 1)
        [] rating = "hard" ->
             LET newInterval ==
                   Max(1, FloorIntervalTimes(adjustedInterval, cfg.hardMultiplier))
             IN  Result(newInterval, addDays(now, newInterval),
                        DecreasedEase(cfg, currentEaseFactor, 15),
                        "REVIEW", 0, 0)
        [] rating = "good" ->
             LET newInterval ==
                   Max(1, FloorIntervalTimesEase(adjustedInterval, currentEaseFactor))
             IN  Result(newInterval, addDays(now, newInterval),
                        currentEaseFactor, "REVIEW", 0, 0)
        [] rating = "easy" ->
             LET newInterval ==
                   Max(1, FloorIntervalTimesEaseBonus(
                            cfg, adjustedInterval, currentEaseFactor,
                            IncreasedEase(cfg, currentEaseFactor)))
             IN  Result(newInterval, addDays(now, newInterval),
                        IncreasedEase(cfg, currentEaseFactor),
                        "REVIEW", 0, 0)

handleRelearningCard(cfg, rating, currentInterval, currentEaseFactor, currentStep, now) ==
  CASE rating = "again" ->
         Result(cfg.learningSteps[1], addMinutes(now, cfg.learningSteps[1]),
                currentEaseFactor, "RELEARNING", 0, 0)
    [] rating = "hard" ->
         LET currentStepInterval == StepOrFirst(cfg, currentStep)
         IN  Result(currentStepInterval, addMinutes(now, currentStepInterval),
                    currentEaseFactor, "RELEARNING", currentStep, 0)
    [] rating = "good" ->
         LET nextStep == currentStep + 1
         IN  IF nextStep >= Len(cfg.learningSteps)
             THEN LET newInterval == LapsedInterval(cfg, currentInterval)
                  IN  Result(newInterval, addDays(now, newInterval),
                             currentEaseFactor, "REVIEW", 0, 0)
             ELSE Result(cfg.learningSteps[nextStep + 1],
                         addMinutes(now, cfg.learningSteps[nextStep + 1]),
                         currentEaseFactor, "RELEARNING", nextStep, 0)
    [] rating = "easy" ->
         LET newInterval == LapsedInterval(cfg, currentInterval)
         IN  Result(newInterval, addDays(now, newInterval),
                    currentEaseFactor, "REVIEW", 0, 0)

\* throw new Error(`Unknown card state: ${currentState}`)
UnknownCardState == [error |-> "Unknown card state"]

\* A calculator that treats a state it does not know as NEW.
calculateReview_CoercesUnknown(cfg, currentState, currentInterval, currentEaseFactor, currentLearningStep, rating, daysLate, now) ==
  CASE currentState = "LEARNING" ->
         handleLearningCard(cfg, rating, currentLearningStep, now)
    [] currentState = "REVIEW" ->
         handleReviewCard(cfg, rating, currentInterval, currentEaseFactor,
                          daysLate, now)
    [] currentState = "RELEARNING" ->
         handleRelearningCard(cfg, rating, currentInterval, currentEaseFactor,
                              currentLearningStep, now)
    [] OTHER ->
         handleNewCard(cfg, rating, now)

calculateReview(cfg, currentState, currentInterval, currentEaseFactor, currentLearningStep, rating, daysLate, now) ==
  CASE currentState = "NEW" ->
         handleNewCard(cfg, rating, now)
    [] currentState = "LEARNING" ->
         handleLearningCard(cfg, rating, currentLearningStep, now)
    [] currentState = "REVIEW" ->
         handleReviewCard(cfg, rating, currentInterval, currentEaseFactor,
                          daysLate, now)
    [] currentState = "RELEARNING" ->
         handleRelearningCard(cfg, rating, currentInterval, currentEaseFactor,
                              currentLearningStep, now)
    [] OTHER ->
         UnknownCardState

isMinuteInterval(interval, cardState) ==
  cardState = "LEARNING" \/ cardState = "RELEARNING"

daysToDays_AsMinutes(days) == days * MinutesPerDay

daysToDays(days) == days

OptionInterval(result) ==
  IF isMinuteInterval(result.newInterval, result.newCardState)
  THEN result.newInterval
  ELSE daysToDays(result.newInterval)

getNextReviewOptions(cfg, currentState, currentInterval, currentEaseFactor, currentLearningStep, daysLate, now) ==
  [ r \in Rating |->
      OptionInterval(calculateReview(cfg, currentState, currentInterval,
                                     currentEaseFactor, currentLearningStep,
                                     r, daysLate, now)) ]

\* dueDate: null and lastReviewDate: null
NullDate == 0 - 1

\* Whole days from dueDate to now, never negative (lines 418-421).
DaysOverdue(dueDate, now) ==
  Max(0, (now - dueDate) \div MinutesPerDay)

\* A priority without the 100 of the cards in learning.
calculatePriority_NoLearningBonus(cfg, dueDate, easeFactor, lapseCount, cardState, now) ==
  IF dueDate = NullDate
  THEN 0
  ELSE DaysOverdue(dueDate, now) * 1000
         + (cfg.maxEaseFactor - easeFactor) * 5
         + lapseCount * 200

\* A priority that grows with the ease factor.
calculatePriority_EaseInverted(cfg, dueDate, easeFactor, lapseCount, cardState, now) ==
  IF dueDate = NullDate
  THEN 0
  ELSE DaysOverdue(dueDate, now) * 1000
         + (easeFactor - cfg.minEaseFactor) * 5
         + lapseCount * 200
         + (IF cardState \in {"LEARNING", "RELEARNING"} THEN 10000 ELSE 0)

\* calculatePriority, in hundredths.
calculatePriority(cfg, dueDate, easeFactor, lapseCount, cardState, now) ==
  IF dueDate = NullDate
  THEN 0
  ELSE DaysOverdue(dueDate, now) * 1000
         + (cfg.maxEaseFactor - easeFactor) * 5
         + lapseCount * 200
         + (IF cardState \in {"LEARNING", "RELEARNING"} THEN 10000 ELSE 0)

\* ------------------------------------------------------------------------
\* The calculator applied to inputs drawn from bounded sets
\* ------------------------------------------------------------------------

MaxSmallInterval == 10

MaxStep == 2

\* Stored intervals: the small ones, and two at which the double product
\* interval * ease falls short of the exact one.
IntervalSamples == (1 .. MaxSmallInterval) \cup {45, 50}

\* Ease factors (hundredths) on the 0.05 grid between the default bounds.
EaseSamples == { 130 + 5 * k : k \in 0 .. 24 }

LateSamples == {0, 3, 4, 8}

NowSamples == {0, 2000}

NoResult == [none |-> TRUE]

CalcInputs ==
  [ config       : Configs,
    state        : CardState,
    interval     : IntervalSamples,
    easeFactor   : EaseSamples,
    learningStep : 0 .. MaxStep,
    rating       : Rating,
    daysLate     : LateSamples,
    now          : NowSamples ]

CalcInit ==
  /\ catalog = {}
  /\ progress = {}
  /\ clock = 0
  /\ pc = << >>
  /\ call = << >>
  /\ requests = 0
  /\ calcIn \in CalcInputs
  /\ calcOut = NoResult
  /\ calcOpts = NoResult

CalcReview ==
  /\ calcOut = NoResult
  /\ calcOut' = calculateReview(calcIn.config, calcIn.state, calcIn.interval,
                                calcIn.easeFactor, calcIn.learningStep,
                                calcIn.rating, calcIn.daysLate, calcIn.now)
  /\ UNCHANGED <<calcIn, calcOpts>>
  /\ UNCHANGED svcVars

CalcOptions ==
  /\ calcOut # NoResult
  /\ calcOpts = NoResult
  /\ calcOpts' = getNextReviewOptions(calcIn.config, calcIn.state,
                                      calcIn.interval, calcIn.easeFactor,
                                      calcIn.learningStep, calcIn.daysLate,
                                      calcIn.now)
  /\ UNCHANGED <<calcIn, calcOut>>
  /\ UNCHANGED svcVars

CalcNext == CalcReview \/ CalcOptions

SpecCalc == CalcInit /\ [][CalcNext]_vars

\* calculatePriority applied to two cards at one time.
MaxLapses == 2

DueSamples == {NullDate, 0, 1440, 2000, 4320}

PriorityEaseSamples == {130, 200, 250}

PriorityNowSamples == {0, 2000, 5760, 10000}

PriorityCards ==
  [ dueDate    : DueSamples,
    easeFactor : PriorityEaseSamples,
    lapseCount : 0 .. MaxLapses,
    cardState  : CardState ]

PriorityInit ==
  /\ catalog = {}
  /\ progress = {}
  /\ clock = 0
  /\ pc = << >>
  /\ call = << >>
  /\ requests = 0
  /\ calcIn \in [a : PriorityCards, b : PriorityCards,
                  now : PriorityNowSamples]
  /\ calcOut = NoResult
  /\ calcOpts = NoResult

PriorityOf(card, now) ==
  calculatePriority(DEFAULT_CONFIG, card.dueDate, card.easeFactor,
                    card.lapseCount, card.cardState, now)

CalcPriority ==
  /\ calcOut = NoResult
  /\ calcOut' = [a |-> PriorityOf(calcIn.a, calcIn.now),
                 b |-> PriorityOf(calcIn.b, calcIn.now)]
  /\ UNCHANGED <<calcIn, calcOpts>>
  /\ UNCHANGED svcVars

PriorityNext == CalcPriority

SpecPriority == PriorityInit /\ [][PriorityNext]_vars

\* ------------------------------------------------------------------------
\* The progress table and SpacedRepetitionService
\* (services/spacedRepetition.ts and the theory-card routes)
\* ------------------------------------------------------------------------

MaxRequests == 4

MaxInterval == 50

MaxClock == 11520

MaxSeqReviews == 10

Procs == {1, 2}

Users == {1}

\* "c1" is a card of the catalog; no card has the id "cX".
CardIds == {"c1", "cX"}

TickSet == {4 * MinutesPerDay}

NoRow == [none |-> TRUE]

\* The values prisma.userTheoryProgress.create stores at lines 38-50, which
\* are also the column defaults and the values resetCard writes.
NewProgress(userId, cardId) ==
  [ userId         |-> userId,
    cardId         |-> cardId,
    solvedCount    |-> 0,
    easeFactor     |-> 250,
    interval       |-> 1,
    dueDate        |-> NullDate,
    reviewCount    |-> 0,
    lapseCount     |-> 0,
    cardState      |-> "NEW",
    learningStep   |-> 0,
    lastReviewDate |-> NullDate ]

\* A where clause that names the learner only.
RowsOf_ByUserOnly(table, userId, cardId) ==
  { row \in table : row.userId = userId }

\* Rows matching the compound key userId_cardId.
RowsOf(table, userId, cardId) ==
  { row \in table : row.userId = userId /\ row.cardId = cardId }

\* prisma.userTheoryProgress.findUnique: the row, or null.
findUnique(table, userId, cardId) ==
  IF RowsOf(table, userId, cardId) = {}
  THEN NoRow
  ELSE CHOOSE row \in RowsOf(table, userId, cardId) : TRUE

\* A lateness without the Math.max(0, ...).
DaysLate_Signed(row, now) ==
  IF row.dueDate # NullDate
  THEN (now - row.dueDate) \div MinutesPerDay
  ELSE 0

\* Lines 55-63: whole days elapsed since the stored dueDate, never negative.
DaysLate(row, now) ==
  IF row.dueDate # NullDate
  THEN Max(0, (now - row.dueDate) \div MinutesPerDay)
  ELSE 0

\* Lines 55-73: the result computed from the loaded row.
ReviewResultOf(row, rating, now) ==
  calculateReview(DEFAULT_CONFIG, row.cardState, row.interval, row.easeFactor,
                  row.learningStep, rating, DaysLate(row, now), now)

\* An update that writes the counters and leaves the schedule fields.
UpdatedRow_CountersOnly(row, result, now) ==
  [ row EXCEPT !.reviewCount    = @ + 1,
               !.lapseCount     = @ + result.lapseCountIncrement,
               !.lastReviewDate = now,
               !.solvedCount    = @ + 1 ]

\* Lines 76-90: the row after prisma.userTheoryProgress.update.
UpdatedRow(row, result, now) ==
  [ row EXCEPT !.easeFactor     = result.newEaseFactor,
               !.interval       = result.newInterval,
               !.dueDate        = result.newDueDate,
               !.reviewCount    = @ + 1,
               !.lapseCount     = @ + result.lapseCountIncrement,
               !.cardState      = result.newCardState,
               !.learningStep   = result.newLearningStep,
               !.lastReviewDate = now,
               !.solvedCount    = @ + 1 ]

\* Whether the review of the loaded record with this rating computes a new
\* ease factor that is off the two-decimal grid (handleReviewCard only: the
\* other handlers pass the ease factor on or return the initial one).
EaseOffGrid(loaded, rating) ==
  /\ loaded.cardState = "REVIEW"
  /\ <<loaded.easeFactor, rating>> \in EaseStepsOffGrid

\* Lines 92-99: getNextReviewOptions on reviewResult, whose newEaseFactor
\* is the double the calculator returned, with daysLate 0.
NextReviewIntervalsOf(result, offGrid, now) ==
  LET onGrid == getNextReviewOptions(DEFAULT_CONFIG, result.newCardState,
                                     result.newInterval, result.newEaseFactor,
                                     result.newLearningStep, 0, now)
  IN  [ r \in Rating |->
          IF offGrid /\ result.newCardState = "REVIEW"
          THEN onGrid[r] + OffGridDelta(r, result.newInterval,
                                        result.newEaseFactor)
          ELSE onGrid[r] ]

\* Lines 92-111: the ReviewResponse.
ResponseOf(row, result, offGrid, now) ==
  [ newInterval         |-> result.newInterval,
    newDueDate          |-> result.newDueDate,
    easeFactor          |-> result.newEaseFactor,
    cardState           |-> result.newCardState,
    reviewCount         |-> row.reviewCount,
    lapseCount          |-> row.lapseCount,
    nextReviewIntervals |-> NextReviewIntervalsOf(result, offGrid, now) ]

\* The errors the Prisma client throws on the progress table: P2003 when
\* the foreign key to TheoryCard fails, P2002 when the unique index
\* (userId, cardId) fails, P2025 when the record to update is missing.
\* error.message.includes("not found"): only the message of P2025 ("...
\* records that were required but not found") holds the words.
MessageIncludesNotFound(error) == error = "P2025"

\* The catch block of POST /cards/:cardId/review.
ReviewErrorStatus(error) ==
  IF MessageIncludesNotFound(error) THEN 404 ELSE 500

IdleCall ==
  [ userId |-> 0, cardId |-> "", rating |-> "", progress |-> NoRow,
    now |-> 0, reviewResult |-> NoResult, response |-> NoResult,
    status |-> 0 ]

Init ==
  /\ catalog = {"c1"}
  /\ progress = {}
  /\ clock = 0
  /\ pc = [p \in Procs |-> "idle"]
  /\ call = [p \in Procs |-> IdleCall]
  /\ requests = 0
  /\ calcIn = NoResult
  /\ calcOut = NoResult
  /\ calcOpts = NoResult

\* POST /cards/:cardId/review up to the answer of findUnique (lines 31-33)
\* and, when a row exists, the computation of lines 55-73.
ReviewFindUnique(p, userId, cardId, rating) ==
  /\ pc[p] = "idle"
  /\ LET row == findUnique(progress, userId, cardId)
     IN  IF row = NoRow
         THEN /\ pc' = [pc EXCEPT ![p] = "create"]
              /\ call' = [call EXCEPT ![p] =
                            [IdleCall EXCEPT !.userId = userId,
                                             !.cardId = cardId,
                                             !.rating = rating]]
         ELSE IF ReviewResultOf(row, rating, clock) = UnknownCardState
         THEN /\ pc' = [pc EXCEPT ![p] = "failed"]
              /\ call' = [call EXCEPT ![p] =
                            [IdleCall EXCEPT
                               !.userId = userId,
                               !.cardId = cardId,
                               !.rating = rating,
                               !.progress = row,
                               !.now = clock,
                               !.status =
                                 ReviewErrorStatus("Unknown card state")]]
         ELSE /\ pc' = [pc EXCEPT ![p] = "update"]
              /\ call' = [call EXCEPT ![p] =
                            [IdleCall EXCEPT
                               !.userId = userId,
                               !.cardId = cardId,
                               !.rating = rating,
                               !.progress = row,
                               !.now = clock,
                               !.reviewResult =
                                 ReviewResultOf(row, rating, clock)]]
  /\ UNCHANGED <<catalog, progress, clock, calcVars>>

\* The ratings of the requests: the four the route accepts, a request
\* without a rating, and a string that is none of the four.
RequestRatings == Rating \cup {"undefined", "perfect"}

\* A route that hands every rating to reviewCard.
PostReview_NoValidation(p, userId, cardId, rating) ==
  ReviewFindUnique(p, userId, cardId, rating)

\* POST /cards/:cardId/review (the theory-card routes, lines 875-909): 400
\* for a rating that is missing or not one of validRatings, before
\* reviewCard is called.
PostReview(p, userId, cardId, rating) ==
  IF rating \notin Rating
  THEN /\ pc[p] = "idle"
       /\ pc' = [pc EXCEPT ![p] = "failed"]
       /\ call' = [call EXCEPT ![p] =
                     [IdleCall EXCEPT !.userId = userId,
                                      !.cardId = cardId,
                                      !.rating = rating,
                                      !.status = 400]]
       /\ UNCHANGED <<catalog, progress, clock, calcVars>>
  ELSE ReviewFindUnique(p, userId, cardId, rating)

\* prisma.userTheoryProgress.create (lines 36-52) followed by lines 55-73.
\* The insert fails on the unique index (userId, cardId) and on the foreign
\* key to TheoryCard; the exception leaves reviewCard.
ReviewCreate(p) ==
  /\ pc[p] = "create"
  /\ LET userId == call[p].userId
         cardId == call[p].cardId
         row    == NewProgress(userId, cardId)
     IN  IF cardId \notin catalog \/ RowsOf(progress, userId, cardId) # {}
         THEN /\ pc' = [pc EXCEPT ![p] = "failed"]
              /\ call' = [call EXCEPT ![p].status =
                            ReviewErrorStatus(IF cardId \notin catalog
                                              THEN "P2003" ELSE "P2002")]
              /\ UNCHANGED progress
         ELSE /\ progress' = progress \cup {row}
              /\ pc' = [pc EXCEPT ![p] = "update"]
              /\ call' = [call EXCEPT
                            ![p].progress = row,
                            ![p].now = clock,
                            ![p].reviewResult =
                              ReviewResultOf(row, call[p].rating, clock)]
  /\ UNCHANGED <<catalog, clock, calcVars>>

\* An update that stores the counters computed from the loaded row, in
\* place of the increments of lines 82-87.
ReviewUpdate_FromSnapshot(p) ==
  /\ pc[p] = "update"
  /\ LET stored == findUnique(progress, call[p].userId, call[p].cardId)
         result == call[p].reviewResult
     IN  IF stored = NoRow
         THEN /\ pc' = [pc EXCEPT ![p] = "failed"]
              /\ call' = [call EXCEPT ![p].status =
                            ReviewErrorStatus("P2025")]
              /\ UNCHANGED progress
         ELSE LET updated == UpdatedRow(call[p].progress, result, call[p].now)
              IN  /\ progress' = (progress \ {stored}) \cup {updated}
                  /\ pc' = [pc EXCEPT ![p] = "done"]
                  /\ call' = [call EXCEPT
                                ![p].response =
                                  ResponseOf(updated, result,
                                            EaseOffGrid(call[p].progress,
                                                        call[p].rating),
                                            clock),
                                ![p].status = 200]
  /\ UNCHANGED <<catalog, clock, calcVars>>

\* prisma.userTheoryProgress.update (lines 76-90) and the response built
\* from its answer (lines 92-111).
ReviewUpdate(p) ==
  /\ pc[p] = "update"
  /\ LET stored == findUnique(progress, call[p].userId, call[p].cardId)
         result == call[p].reviewResult
     IN  IF stored = NoRow
         THEN /\ pc' = [pc EXCEPT ![p] = "failed"]
              /\ call' = [call EXCEPT ![p].status =
                            ReviewErrorStatus("P2025")]
              /\ UNCHANGED progress
         ELSE LET updated == UpdatedRow(stored, result, call[p].now)
              IN  /\ progress' = (progress \ {stored}) \cup {updated}
                  /\ pc' = [pc EXCEPT ![p] = "done"]
                  /\ call' = [call EXCEPT
                                ![p].response =
                                  ResponseOf(updated, result,
                                            EaseOffGrid(call[p].progress,
                                                        call[p].rating),
                                            clock),
                                ![p].status = 200]
  /\ UNCHANGED <<catalog, clock, calcVars>>

\* The route answers (200, or the catch block) and the call ends.
ReviewReturn(p) ==
  /\ pc[p] \in {"done", "failed"}
  /\ pc' = [pc EXCEPT ![p] = "idle"]
  /\ call' = [call EXCEPT ![p] = IdleCall]
  /\ UNCHANGED <<catalog, progress, clock, calcVars>>

\* A reset whose update branch leaves the two counters of the record.
ResetCard_KeepsCounts(userId, cardId) ==
  /\ cardId \in catalog
  /\ LET row == findUnique(progress, userId, cardId)
     IN  progress' =
           IF row = NoRow
           THEN progress \cup {NewProgress(userId, cardId)}
           ELSE (progress \ {row})
                  \cup {[NewProgress(userId, cardId) EXCEPT
                           !.reviewCount = row.reviewCount,
                           !.lapseCount = row.lapseCount]}
  /\ UNCHANGED <<catalog, clock, pc, call, calcVars>>

\* A reset whose update branch leaves dueDate as it is.
ResetCard_KeepsDueDate(userId, cardId) ==
  /\ cardId \in catalog
  /\ LET row == findUnique(progress, userId, cardId)
     IN  progress' =
           IF row = NoRow
           THEN progress \cup {NewProgress(userId, cardId)}
           ELSE (progress \ {row})
                  \cup {[NewProgress(userId, cardId) EXCEPT
                           !.dueDate = row.dueDate]}
  /\ UNCHANGED <<catalog, clock, pc, call, calcVars>>

\* A reset whose update branch leaves lapseCount as it is.
ResetCard_KeepsLapseCount(userId, cardId) ==
  /\ cardId \in catalog
  /\ LET row == findUnique(progress, userId, cardId)
     IN  progress' =
           IF row = NoRow
           THEN progress \cup {NewProgress(userId, cardId)}
           ELSE (progress \ {row})
                  \cup {[NewProgress(userId, cardId) EXCEPT
                           !.lapseCount = row.lapseCount]}
  /\ UNCHANGED <<catalog, clock, pc, call, calcVars>>

\* POST /cards/:cardId/reset: 404 for a card outside the catalog, otherwise
\* resetCard, one upsert on the compound key.
ResetCard(userId, cardId) ==
  /\ cardId \in catalog
  /\ progress' = (progress \ RowsOf(progress, userId, cardId))
                   \cup {NewProgress(userId, cardId)}
  /\ UNCHANGED <<catalog, clock, pc, call, calcVars>>

\* PATCH /cards/:cardId/progress with action "increment" (the theory-card
\* routes, lines 679-694): 404 for a card outside the catalog, otherwise one
\* upsert on the compound key; the columns the create leaves out take their
\* defaults.
LegacyIncrement(userId, cardId) ==
  /\ cardId \in catalog
  /\ LET row == findUnique(progress, userId, cardId)
     IN  progress' =
           IF row = NoRow
           THEN progress
                  \cup {[NewProgress(userId, cardId) EXCEPT !.solvedCount = 1]}
           ELSE (progress \ {row})
                  \cup {[row EXCEPT !.solvedCount = @ + 1]}
  /\ UNCHANGED <<catalog, clock, pc, call, calcVars>>

\* PATCH /cards/:cardId/progress with action "decrement", first statement
\* (lines 679-706): updateMany lowers solvedCount where it is above 0.
LegacyDecrementUpdateMany(p, userId, cardId) ==
  /\ pc[p] = "idle"
  /\ cardId \in catalog
  /\ progress' =
       { IF row.userId = userId /\ row.cardId = cardId /\ row.solvedCount > 0
         THEN [row EXCEPT !.solvedCount = @ - 1]
         ELSE row : row \in progress }
  /\ pc' = [pc EXCEPT ![p] = "decrementUpsert"]
  /\ call' = [call EXCEPT ![p] = [IdleCall EXCEPT !.userId = userId,
                                                  !.cardId = cardId]]
  /\ UNCHANGED <<catalog, clock, calcVars>>

\* A decrement whose upsert inserts although the pair has a record.
LegacyDecrementUpsert_NoUniqueIndex(p) ==
  /\ pc[p] = "decrementUpsert"
  /\ progress' = progress \cup {NewProgress(call[p].userId, call[p].cardId)}
  /\ pc' = [pc EXCEPT ![p] = "idle"]
  /\ call' = [call EXCEPT ![p] = IdleCall]
  /\ UNCHANGED <<catalog, clock, calcVars>>

\* The second statement of the decrement (lines 708-713): an upsert that
\* inserts a record with solvedCount 0 when the pair has none and changes
\* nothing otherwise; then the route answers.
LegacyDecrementUpsert(p) ==
  /\ pc[p] = "decrementUpsert"
  /\ progress' =
       IF RowsOf(progress, call[p].userId, call[p].cardId) = {}
       THEN progress \cup {NewProgress(call[p].userId, call[p].cardId)}
       ELSE progress
  /\ pc' = [pc EXCEPT ![p] = "idle"]
  /\ call' = [call EXCEPT ![p] = IdleCall]
  /\ UNCHANGED <<catalog, clock, calcVars>>

\* Time passes.
Tick(d) ==
  /\ clock + d <= MaxClock
  /\ clock' = clock + d
  /\ UNCHANGED <<catalog, progress, pc, call, calcVars>>

\* The bound on the interval a review starts from and, for runs of reviews
\* one after the other, on the reviews of one row.
WithinBounds(userId, cardId, maxReviews) ==
  \A row \in RowsOf(progress, userId, cardId) :
    row.reviewCount < maxReviews /\ row.interval <= MaxInterval

\* One more request accepted, while the bound allows.
Accept ==
  /\ requests < MaxRequests
  /\ requests' = requests + 1

Next ==
  \/ \E p \in Procs, userId \in Users, cardId \in CardIds, rating \in Rating :
        /\ WithinBounds(userId, cardId, MaxRequests)
        /\ Accept
        /\ ReviewFindUnique(p, userId, cardId, rating)
  \/ \E p \in Procs : ReviewCreate(p) /\ UNCHANGED requests
  \/ \E p \in Procs : ReviewUpdate(p) /\ UNCHANGED requests
  \/ \E p \in Procs : ReviewReturn(p) /\ UNCHANGED requests
  \/ \E userId \in Users, cardId \in CardIds :
        Accept /\ ResetCard(userId, cardId)
  \/ \E d \in TickSet : Tick(d) /\ UNCHANGED requests

Spec == Init /\ [][Next]_vars

\* Reviews and resets one after the other: a single call in flight.
NextSeq ==
  \/ \E userId \in Users, cardId \in CardIds, rating \in RequestRatings :
        /\ WithinBounds(userId, cardId, MaxSeqReviews)
        /\ PostReview(1, userId, cardId, rating)
        /\ UNCHANGED requests
  \/ ReviewCreate(1) /\ UNCHANGED requests
  \/ ReviewUpdate(1) /\ UNCHANGED requests
  \/ ReviewReturn(1) /\ UNCHANGED requests
  \/ \E userId \in Users, cardId \in CardIds :
        /\ pc[1] = "idle"
        /\ ResetCard(userId, cardId)
        /\ UNCHANGED requests
  \/ \E d \in TickSet :
        /\ pc[1] = "idle"
        /\ Tick(d)
        /\ UNCHANGED requests

SpecSeq == Init /\ [][NextSeq]_vars

\* The reviews of one run of 'good' ratings.
MaxGoodReviews == 3

\* The cards a run of 'good' reviews starts from: a NEW card, a LEARNING
\* card on step 0 or 1 (handleNewCard stores step 1 under either
\* configuration), a RELEARNING card on a configured step, a REVIEW card.
GoodRunStarts ==
  { c \in CalcInputs :
      /\ c.rating = "good" /\ c.daysLate = 0 /\ c.now = 0
      /\ c.state = "NEW" => c.learningStep = 0 /\ c.interval = 1
                              /\ c.easeFactor = c.config.initialEaseFactor
      /\ c.state = "LEARNING" => c.learningStep \in {0, 1}
                                   /\ c.interval \in {1, 10}
                                   /\ c.easeFactor = c.config.initialEaseFactor
      /\ c.state = "RELEARNING" => HasStep(c.config, c.learningStep)
                                     /\ c.interval \in {1, 10}
      /\ c.state = "REVIEW" => c.learningStep = 0 }

GoodRunInit ==
  /\ catalog = {}
  /\ progress = {}
  /\ clock = 0
  /\ pc = << >>
  /\ call = << >>
  /\ requests = 0
  /\ calcIn \in GoodRunStarts
  /\ calcOut = [reviews |-> 0]
  /\ calcOpts = NoResult

\* One more 'good' review of the card, on time: calculateReview on the
\* card's fields, whose result becomes the card (reviewCard, lines 66-90).
GoodReview ==
  /\ calcOut.reviews < MaxGoodReviews
  /\ calcIn.interval <= MaxInterval
  /\ LET result == calculateReview(calcIn.config, calcIn.state,
                                   calcIn.interval, calcIn.easeFactor,
                                   calcIn.learningStep, "good", 0, calcIn.now)
     IN  calcIn' = [calcIn EXCEPT !.state        = result.newCardState,
                                  !.interval     = result.newInterval,
                                  !.easeFactor   = result.newEaseFactor,
                                  !.learningStep = result.newLearningStep]
  /\ calcOut' = [reviews |-> calcOut.reviews + 1]
  /\ UNCHANGED calcOpts
  /\ UNCHANGED svcVars

GoodRunNext == GoodReview

SpecGoodRun == GoodRunInit /\ [][GoodRunNext]_vars

\* The pair whose reviews process 1 submits, and the pairs of the other
\* requests: another card of the same learner, the same card of another
\* learner.
ThePair == <<1, "c1">>

OtherPairs == {<<1, "c2">>, <<2, "c1">>}

PairsInit ==
  /\ catalog = {"c1", "c2"}
  /\ progress = {}
  /\ clock = 0
  /\ pc = [p \in Procs |-> "idle"]
  /\ call = [p \in Procs |-> IdleCall]
  /\ requests = 0
  /\ calcIn = NoResult
  /\ calcOut = NoResult
  /\ calcOpts = NoResult

\* Reviews of one pair by process 1 while process 2 reviews, and resets
\* hit, other pairs; the pair itself is reset between its reviews.
NextPairs ==
  \/ \E rating \in Rating :
        /\ WithinBounds(ThePair[1], ThePair[2], MaxRequests)
        /\ Accept
        /\ ReviewFindUnique(1, ThePair[1], ThePair[2], rating)
  \/ \E pair \in OtherPairs, rating \in Rating :
        /\ WithinBounds(pair[1], pair[2], MaxRequests)
        /\ Accept
        /\ ReviewFindUnique(2, pair[1], pair[2], rating)
  \/ \E p \in Procs : ReviewCreate(p) /\ UNCHANGED requests
  \/ \E p \in Procs : ReviewUpdate(p) /\ UNCHANGED requests
  \/ \E p \in Procs : ReviewReturn(p) /\ UNCHANGED requests
  \/ \E pair \in OtherPairs :
        Accept /\ ResetCard(pair[1], pair[2])
  \/ /\ pc[1] = "idle"
     /\ Accept
     /\ ResetCard(ThePair[1], ThePair[2])

SpecPairs == PairsInit /\ [][NextPairs]_vars

\* Records whose cardState is none of the four: the column holds a value
\* the service does not know.
UnknownStateRows ==
  { [NewProgress(1, "c1") EXCEPT
       !.cardState = "SUSPENDED", !.interval = interval,
       !.dueDate = 0, !.lastReviewDate = 0,
       !.reviewCount = 2, !.lapseCount = 1, !.solvedCount = 2]
    : interval \in {1, 4} }

IntegrityInit ==
  /\ catalog = {"c1"}
  /\ progress \in { {row} : row \in UnknownStateRows }
  /\ clock = 0
  /\ pc = [p \in Procs |-> "idle"]
  /\ call = [p \in Procs |-> IdleCall]
  /\ requests = 0
  /\ calcIn = NoResult
  /\ calcOut = NoResult
  /\ calcOpts = NoResult

\* Reviews and resets one after the other on a table that holds a record
\* of unknown state.
SpecIntegrity == IntegrityInit /\ [][NextSeq]_vars

\* Reviews, resets and the legacy progress route interleaved, at one time.
NextLegacy ==
  \/ \E p \in Procs, userId \in Users, cardId \in CardIds, rating \in Rating :
        Accept /\ ReviewFindUnique(p, userId, cardId, rating)
  \/ \E p \in Procs : ReviewCreate(p) /\ UNCHANGED requests
  \/ \E p \in Procs : ReviewUpdate(p) /\ UNCHANGED requests
  \/ \E p \in Procs : ReviewReturn(p) /\ UNCHANGED requests
  \/ \E userId \in Users, cardId \in CardIds :
        Accept /\ ResetCard(userId, cardId)
  \/ \E userId \in Users, cardId \in CardIds :
        Accept /\ LegacyIncrement(userId, cardId)
  \/ \E p \in Procs, userId \in Users, cardId \in CardIds :
        Accept /\ LegacyDecrementUpdateMany(p, userId, cardId)
  \/ \E p \in Procs : LegacyDecrementUpsert(p) /\ UNCHANGED requests

SpecLegacy == Init /\ [][NextLegacy]_vars

\* ------------------------------------------------------------------------
\* SpacedRepetitionService.getDueCards (lines 117-234)
\* ------------------------------------------------------------------------

\* Lines 127-130: the states the inclusion flags enable.
StateFilter(includeNew, includeLearning, includeReview) ==
  (IF includeNew THEN {"NEW"} ELSE {})
    \cup (IF includeLearning THEN {"LEARNING", "RELEARNING"} ELSE {})
    \cup (IF includeReview THEN {"REVIEW"} ELSE {})

\* Lines 158-179: the entry of a card without a progress record.
NewDueCard(cardId, now) ==
  [ id          |-> cardId,
    dueDate     |-> NullDate,
    cardState   |-> "NEW",
    interval    |-> 1,
    easeFactor  |-> 250,
    reviewCount |-> 0,
    lapseCount  |-> 0,
    isOverdue   |-> FALSE,
    priority    |-> calculatePriority(DEFAULT_CONFIG, NullDate, 250, 0,
                                      "NEW", now) ]

\* Lines 201-227: the entry of a card with a progress record.
ProgressDueCard(cardId, row, now) ==
  [ id          |-> cardId,
    dueDate     |-> row.dueDate,
    cardState   |-> row.cardState,
    interval    |-> row.interval,
    easeFactor  |-> row.easeFactor,
    reviewCount |-> row.reviewCount,
    lapseCount  |-> row.lapseCount,
    isOverdue   |-> (row.dueDate # NullDate /\ now > row.dueDate),
    priority    |-> calculatePriority(DEFAULT_CONFIG, row.dueDate,
                                      row.easeFactor, row.lapseCount,
                                      row.cardState, now) ]

\* A filter that lets every REVIEW card of an enabled state through.
Survives_NoReviewGate(row, filter, now) ==
  /\ row.cardState \in filter
  /\ ~ ( /\ row.cardState \in {"LEARNING", "RELEARNING"}
         /\ row.dueDate # NullDate
         /\ now < row.dueDate )

\* A filter that lets every LEARNING and RELEARNING card of an enabled
\* state through.
Survives_NoLearningGate(row, filter, now) ==
  /\ row.cardState \in filter
  /\ ~ ( /\ row.cardState = "REVIEW"
         /\ row.dueDate # NullDate
         /\ (now - row.dueDate) \div MinutesPerDay < 0 )

\* A filter that does not look at the inclusion flags.
Survives_AnyState(row, filter, now) ==
  /\ ~ ( /\ row.cardState \in {"LEARNING", "RELEARNING"}
         /\ row.dueDate # NullDate
         /\ now < row.dueDate )
  /\ ~ ( /\ row.cardState = "REVIEW"
         /\ row.dueDate # NullDate
         /\ (now - row.dueDate) \div MinutesPerDay < 0 )

\* A filter that looks at the inclusion flags only.
Survives_NoGates(row, filter, now) ==
  row.cardState \in filter

\* Lines 181-199: the card with this progress record is kept.
Survives(row, filter, now) ==
  /\ row.cardState \in filter
  /\ ~ ( /\ row.cardState \in {"LEARNING", "RELEARNING"}
         /\ row.dueDate # NullDate
         /\ now < row.dueDate )
  /\ ~ ( /\ row.cardState = "REVIEW"
         /\ row.dueDate # NullDate
         /\ (now - row.dueDate) \div MinutesPerDay < 0 )

\* Lines 152-228: the loop over the fetched cards, in their order.
RECURSIVE ProcessCards(_, _, _, _, _, _)
ProcessCards(fetched, table, userId, includeNew, filter, now) ==
  IF fetched = << >>
  THEN << >>
  ELSE LET cardId == Head(fetched)
           row == findUnique(table, userId, cardId)
           rest == ProcessCards(Tail(fetched), table, userId, includeNew,
                                filter, now)
       IN  IF row = NoRow
           THEN IF includeNew
                THEN <<NewDueCard(cardId, now)>> \o rest
                ELSE rest
           ELSE IF Survives(row, filter, now)
                THEN <<ProgressDueCard(cardId, row, now)>> \o rest
                ELSE rest

\* The entry placed after the entries of the sorted list whose priority is
\* at least its own.
RECURSIVE InsertByPriority(_, _)
InsertByPriority(sorted, card) ==
  IF sorted = << >>
  THEN <<card>>
  ELSE IF Head(sorted).priority >= card.priority
       THEN <<Head(sorted)>> \o InsertByPriority(Tail(sorted), card)
       ELSE <<card>> \o sorted

\* A sort by priority, lowest first.
RECURSIVE SortByPriority_Ascending(_)
SortByPriority_Ascending(cards) ==
  IF cards = << >>
  THEN << >>
  ELSE LET rest == SortByPriority_Ascending(Tail(cards))
           lower == SelectSeq(rest, LAMBDA c : c.priority < Head(cards).priority)
           higher == SelectSeq(rest, LAMBDA c : c.priority >= Head(cards).priority)
       IN  lower \o <<Head(cards)>> \o higher

\* Line 232: sort((a, b) => b.priority - a.priority), a stable sort.
RECURSIVE SortByPriority(_)
SortByPriority(cards) ==
  IF cards = << >>
  THEN << >>
  ELSE InsertByPriority(SortByPriority(SubSeq(cards, 1, Len(cards) - 1)),
                        cards[Len(cards)])

\* Line 233: slice(0, limit)
Slice(cards, limit) == SubSeq(cards, 1, Min(limit, Len(cards)))

\* getDueCards on the cards findMany returned, in the order it returned
\* them.
getDueCards(fetched, table, userId, limit, includeNew, includeLearning, includeReview, now) ==
  Slice(SortByPriority(
          ProcessCards(fetched, table, userId, includeNew,
                       StateFilter(includeNew, includeLearning,
                                   includeReview), now)), limit)

\* prisma.theoryCard.findMany with take: limit * 2 and no orderBy (lines
\* 132-149): some take cards of the catalog, each once, in an order the
\* query does not fix.
FetchOrders(cards, take) ==
  { f \in [1 .. Min(take, Cardinality(cards)) -> cards] :
      \A i, j \in DOMAIN f : i # j => f[i] # f[j] }

MaxLimit == 2

DueCatalog == {"c1", "c2", "c3"}

DueNow == 20000

\* Records of one card at DueNow: never reviewed, in learning and due or
\* not yet due, and in review with a dueDate ahead, less than a day back,
\* more than a day back and eleven days back.
DueRowSamples(cardId) ==
  {NewProgress(1, cardId)}
    \cup { [NewProgress(1, cardId) EXCEPT
              !.cardState = "LEARNING", !.interval = 1,
              !.dueDate = due, !.lastReviewDate = due - 1,
              !.reviewCount = 1, !.solvedCount = 1]
            : due \in {DueNow - 5, DueNow + 5} }
    \cup { [NewProgress(1, cardId) EXCEPT
              !.cardState = "RELEARNING", !.interval = 1,
              !.easeFactor = 230,
              !.dueDate = due, !.lastReviewDate = due - 1,
              !.reviewCount = 3, !.lapseCount = 1, !.solvedCount = 3]
            : due \in {DueNow - 3000, DueNow + 5} }
    \cup { [NewProgress(1, cardId) EXCEPT
              !.cardState = "REVIEW", !.interval = 2,
              !.easeFactor = hard[1],
              !.dueDate = due, !.lastReviewDate = due - 2 * MinutesPerDay,
              !.reviewCount = hard[3], !.lapseCount = hard[2],
              !.solvedCount = hard[3]]
            : due \in {DueNow + 100, DueNow - 100, DueNow - 1500,
                       DueNow - 16000},
              hard \in {<<250, 0, 3>>, <<130, 2, 14>>} }

\* No record of the card, or one of the sampled records.
CardOptions(cardId) ==
  {{}} \cup { {row} : row \in DueRowSamples(cardId) }

\* The tables that hold, for each of the cards, one of its options.
RECURSIVE TablesOver(_)
TablesOver(cards) ==
  IF cards = {}
  THEN {{}}
  ELSE LET cardId == CHOOSE c \in cards : TRUE
       IN  { table \cup option :
               table \in TablesOver(cards \ {cardId}),
               option \in CardOptions(cardId) }

DueInit ==
  /\ catalog = DueCatalog
  /\ progress \in TablesOver(DueCatalog)
  /\ clock = DueNow
  /\ pc = << >>
  /\ call = << >>
  /\ requests = 0
  /\ calcIn = NoResult
  /\ calcOut = NoResult
  /\ calcOpts = NoResult

\* GET /cards/due (the theory-card routes, lines 451-488) for learner 1.
GetDueCards(limit, includeNew, includeLearning, includeReview) ==
  /\ calcOut = NoResult
  /\ \E fetched \in FetchOrders(catalog, limit * 2) :
       /\ calcIn' = [ limit |-> limit, includeNew |-> includeNew,
                      includeLearning |-> includeLearning,
                      includeReview |-> includeReview,
                      fetched |-> fetched ]
       /\ calcOut' = [ cards |->
                         getDueCards(fetched, progress, 1, limit,
                                     includeNew, includeLearning,
                                     includeReview, clock) ]
  /\ UNCHANGED <<calcOpts, svcVars>>

DueNext ==
  \E limit \in 1 .. MaxLimit, includeNew \in BOOLEAN, includeLearning \in BOOLEAN, includeReview \in BOOLEAN :
    GetDueCards(limit, includeNew, includeLearning, includeReview)

SpecDue == DueInit /\ [][DueNext]_vars

\* The reviews of one record in the runs that end with a query of the due
\* cards.
MaxQueryReviews == 4

\* Reviews, resets and waits one after the other, then one GET /cards/due
\* of learner 1, between two review requests or right after the answer of
\* one.
NextReviewDue ==
  \/ /\ calcOut = NoResult
     /\ \A row \in progress : row.reviewCount < MaxQueryReviews
     /\ NextSeq
  \/ /\ pc[1] \in {"idle", "done"}
     /\ \E limit \in 1 .. MaxLimit, includeNew \in BOOLEAN, includeLearning \in BOOLEAN, includeReview \in BOOLEAN :
          GetDueCards(limit, includeNew, includeLearning, includeReview)

SpecReviewDue == Init /\ [][NextReviewDue]_vars

\* ------------------------------------------------------------------------
\* Properties
\* ------------------------------------------------------------------------

\* The fields of a row that the serial-order comparison looks at.
Schedule(row) ==
  <<row.cardState, row.interval, row.easeFactor, row.learningStep,
    row.reviewCount, row.lapseCount>>

\* The row after two reviews run one after the other, the first complete
\* before the second loads the row.
SerialRow(row, r1, n1, r2, n2) ==
  LET first == UpdatedRow(row, ReviewResultOf(row, r1, n1), n1)
  IN  UpdatedRow(first, ReviewResultOf(first, r2, n2), n2)

\* Both calls loaded the same row of the same pair, and both have written.
Overlapped ==
  /\ pc[1] = "done" /\ pc[2] = "done"
  /\ call[1].userId = call[2].userId
  /\ call[1].cardId = call[2].cardId
  /\ call[1].progress = call[2].progress
  /\ \E row \in progress :
       /\ row.userId = call[1].userId /\ row.cardId = call[1].cardId
       /\ row.reviewCount = call[1].progress.reviewCount + 2

\* C1: when two reviewCard calls on the same pair overlap, the persisted
\* record equals the record of the two calls run one after the other in
\* some order.
C1_OverlapIsSerial ==
  Overlapped =>
    \A row \in RowsOf(progress, call[1].userId, call[1].cardId) :
      \/ Schedule(row) =
           Schedule(SerialRow(call[1].progress, call[1].rating, call[1].now,
                              call[2].rating, call[2].now))
      \/ Schedule(row) =
           Schedule(SerialRow(call[1].progress, call[2].rating, call[2].now,
                              call[1].rating, call[1].now))

\* The calculator has been applied to a card in the given state with the
\* given rating.
Applied(state, rating) ==
  /\ calcOut # NoResult
  /\ calcIn.state = state
  /\ calcIn.rating = rating

\* floor of the exact product of a whole number and a factor in hundredths
ExactFloor(n, hundredths) == (n * hundredths) \div 100

\* C2: the stored easeFactor stays within minEaseFactor and maxEaseFactor
\* after any sequence of reviews and resets of a never-reviewed card.
C2_EaseWithinBounds ==
  \A row \in progress :
    /\ DEFAULT_CONFIG.minEaseFactor <= row.easeFactor
    /\ row.easeFactor <= DEFAULT_CONFIG.maxEaseFactor

\* A 'hard' review of a REVIEW card already at the minimum has been stored.
C2_Witness ==
  /\ pc[1] = "done"
  /\ call[1].rating = "hard"
  /\ call[1].progress.cardState = "REVIEW"
  /\ call[1].progress.easeFactor = DEFAULT_CONFIG.minEaseFactor
  /\ \E row \in progress :
       /\ row.reviewCount = call[1].progress.reviewCount + 1
       /\ row.easeFactor = DEFAULT_CONFIG.minEaseFactor

\* C3: the interval calculateReview returns and reviewCard stores is at
\* least 1.
C3_IntervalAtLeastOne ==
  /\ \A row \in progress : row.interval >= 1
  /\ \A p \in Procs :
       call[p].reviewResult # NoResult =>
         call[p].reviewResult.newInterval >= 1

\* A card leaves RELEARNING from a one-minute step: a tenth of it floors
\* to 0, and the stored interval is 1.
C3_Witness ==
  /\ pc[1] = "done"
  /\ call[1].rating = "easy"
  /\ call[1].progress.cardState = "RELEARNING"
  /\ call[1].progress.interval = 1
  /\ \E row \in progress :
       /\ row.reviewCount = call[1].progress.reviewCount + 1
       /\ row.cardState = "REVIEW"
       /\ row.interval = 1

\* C4: 'again' on a REVIEW card gives RELEARNING, step 0, one lapse, the
\* ease lowered by 0.2 but not below the minimum, and the interval and due
\* date of the first learning step, in minutes.
C4_ReviewAgain ==
  Applied("REVIEW", "again") =>
    /\ calcOut.newCardState = "RELEARNING"
    /\ calcOut.newLearningStep = 0
    /\ calcOut.lapseCountIncrement = 1
    /\ calcOut.newEaseFactor =
         Max(calcIn.config.minEaseFactor, calcIn.easeFactor - 20)
    /\ calcOut.newInterval = calcIn.config.learningSteps[1]
    /\ calcOut.newDueDate = calcIn.now + calcIn.config.learningSteps[1]

\* A lapse from interval 50, whose decayed interval would be 5, at an ease
\* that the decrease takes to the minimum.
C4_Witness ==
  /\ Applied("REVIEW", "again")
  /\ calcIn.interval = 50
  /\ calcIn.easeFactor = 140
  /\ calcOut.newInterval = 1
  /\ calcOut.newEaseFactor = 130

\* C5: the option getNextReviewOptions returns for a rating is the
\* newInterval calculateReview returns for that rating on the same snapshot.
C5_OptionsAreReviewIntervals ==
  (calcOut # NoResult /\ calcOpts # NoResult) =>
    calcOpts[calcIn.rating] = calcOut.newInterval

\* Options of a REVIEW card, whose 'easy' interval is in days.
C5_Witness ==
  /\ calcOpts # NoResult
  /\ Applied("REVIEW", "easy")
  /\ calcOut.newCardState = "REVIEW"
  /\ calcOut.newInterval > 1
  /\ calcOpts["easy"] = calcOut.newInterval

\* C6: the four outcomes of reviewing a NEW card.
C6_NewCard ==
  (calcOut # NoResult /\ calcIn.state = "NEW") =>
    LET steps == calcIn.config.learningSteps
        second == IF Len(steps) >= 2 THEN steps[2] ELSE steps[1]
    IN  /\ calcOut.newEaseFactor = calcIn.config.initialEaseFactor
        /\ calcOut.lapseCountIncrement = 0
        /\ calcIn.rating \in {"again", "hard"} =>
             /\ calcOut.newCardState = "LEARNING"
             /\ calcOut.newLearningStep = 0
             /\ calcOut.newInterval = steps[1]
             /\ calcOut.newDueDate = calcIn.now + steps[1]
        /\ calcIn.rating = "good" =>
             /\ calcOut.newCardState = "LEARNING"
             /\ calcOut.newLearningStep = 1
             /\ calcOut.newInterval = second
             /\ calcOut.newDueDate = calcIn.now + second
        /\ calcIn.rating = "easy" =>
             /\ calcOut.newCardState = "REVIEW"
             /\ calcOut.newLearningStep = 0
             /\ calcOut.newInterval = calcIn.config.easyInterval
             /\ calcOut.newDueDate =
                  calcIn.now + calcIn.config.easyInterval * 1440

\* 'good' on a NEW card under a configuration with one learning step.
C6_Witness ==
  /\ Applied("NEW", "good")
  /\ calcIn.config = SINGLE_STEP_CONFIG
  /\ calcIn.now = 2000
  /\ calcOut.newInterval = 1
  /\ calcOut.newLearningStep = 1
  /\ calcOut.newDueDate = 2001

\* C7: the four outcomes of reviewing a LEARNING card at step s.
C7_LearningCard ==
  (calcOut # NoResult /\ calcIn.state = "LEARNING") =>
    LET steps == calcIn.config.learningSteps
        s == calcIn.learningStep
    IN  /\ calcIn.rating = "again" =>
             /\ calcOut.newCardState = "LEARNING"
             /\ calcOut.newLearningStep = 0
             /\ calcOut.newInterval = steps[1]
        /\ calcIn.rating = "hard" =>
             /\ calcOut.newCardState = "LEARNING"
             /\ calcOut.newLearningStep = s
             /\ calcOut.newInterval =
                  (IF s < Len(steps) THEN steps[s + 1] ELSE steps[1])
        /\ (calcIn.rating = "good" /\ s + 1 < Len(steps)) =>
             /\ calcOut.newCardState = "LEARNING"
             /\ calcOut.newLearningStep = s + 1
             /\ calcOut.newInterval = steps[s + 2]
        /\ (calcIn.rating = "good" /\ s + 1 >= Len(steps)) =>
             /\ calcOut.newCardState = "REVIEW"
             /\ calcOut.newLearningStep = 0
             /\ calcOut.newInterval = calcIn.config.graduatingInterval
        /\ calcIn.rating = "easy" =>
             /\ calcOut.newCardState = "REVIEW"
             /\ calcOut.newLearningStep = 0
             /\ calcOut.newInterval = calcIn.config.easyInterval
        /\ calcOut.newDueDate =
             calcIn.now + (IF calcOut.newCardState = "REVIEW"
                           THEN calcOut.newInterval * 1440
                           ELSE calcOut.newInterval)

\* 'hard' on the last of two learning steps repeats the ten-minute step.
C7_Witness ==
  /\ Applied("LEARNING", "hard")
  /\ calcIn.config = DEFAULT_CONFIG
  /\ calcIn.learningStep = 1
  /\ calcOut.newLearningStep = 1
  /\ calcOut.newInterval = 10

\* C8: the outcomes of 'hard', 'good' and 'easy' on a REVIEW card, with
\* the intervals the floors of the products of the adjusted interval.
C8_ReviewCard ==
  (calcOut # NoResult /\ calcIn.state = "REVIEW" /\ calcIn.rating # "again") =>
    LET cfg == calcIn.config
        adjustedInterval ==
          Max(1, calcIn.interval + ExactFloor(calcIn.daysLate, 25))
        increasedEase == Min(cfg.maxEaseFactor, calcIn.easeFactor + 15)
    IN  /\ calcOut.newCardState = "REVIEW"
        /\ calcOut.newLearningStep = 0
        /\ calcOut.lapseCountIncrement = 0
        /\ calcOut.newDueDate = calcIn.now + calcOut.newInterval * 1440
        /\ calcIn.rating = "hard" =>
             /\ calcOut.newEaseFactor =
                  Max(cfg.minEaseFactor, calcIn.easeFactor - 15)
             /\ calcOut.newInterval =
                  Max(1, ExactFloor(adjustedInterval, cfg.hardMultiplier))
        /\ calcIn.rating = "good" =>
             /\ calcOut.newEaseFactor = calcIn.easeFactor
             /\ calcOut.newInterval =
                  Max(1, ExactFloor(adjustedInterval, calcIn.easeFactor))
        /\ calcIn.rating = "easy" =>
             /\ calcOut.newEaseFactor = increasedEase
             /\ calcOut.newInterval =
                  Max(1, (adjustedInterval * increasedEase * cfg.easyBonus)
                           \div 10000)

\* C9: the four outcomes of reviewing a RELEARNING card at step s; the
\* ease factor is kept and no lapse is counted.
C9_RelearningCard ==
  (calcOut # NoResult /\ calcIn.state = "RELEARNING") =>
    LET cfg == calcIn.config
        steps == cfg.learningSteps
        s == calcIn.learningStep
        lapsed == Max(1, ExactFloor(calcIn.interval, cfg.lapseMultiplier))
    IN  /\ calcOut.newEaseFactor = calcIn.easeFactor
        /\ calcOut.lapseCountIncrement = 0
        /\ calcIn.rating = "again" =>
             /\ calcOut.newCardState = "RELEARNING"
             /\ calcOut.newLearningStep = 0
             /\ calcOut.newInterval = steps[1]
        /\ calcIn.rating = "hard" =>
             /\ calcOut.newCardState = "RELEARNING"
             /\ calcOut.newLearningStep = s
             /\ calcOut.newInterval =
                  (IF s < Len(steps) THEN steps[s + 1] ELSE steps[1])
        /\ (calcIn.rating = "good" /\ s + 1 < Len(steps)) =>
             /\ calcOut.newCardState = "RELEARNING"
             /\ calcOut.newLearningStep = s + 1
             /\ calcOut.newInterval = steps[s + 2]
        /\ (calcIn.rating = "easy"
              \/ (calcIn.rating = "good" /\ s + 1 >= Len(steps))) =>
             /\ calcOut.newCardState = "REVIEW"
             /\ calcOut.newLearningStep = 0
             /\ calcOut.newInterval = lapsed
        /\ calcOut.newDueDate =
             calcIn.now + (IF calcOut.newCardState = "REVIEW"
                           THEN calcOut.newInterval * 1440
                           ELSE calcOut.newInterval)

\* 'good' on the last relearning step returns the card to REVIEW with a
\* tenth of the stored interval.
C9_Witness ==
  /\ Applied("RELEARNING", "good")
  /\ calcIn.config = DEFAULT_CONFIG
  /\ calcIn.learningStep = 1
  /\ calcIn.interval = 50
  /\ calcOut.newCardState = "REVIEW"
  /\ calcOut.newInterval = 5

\* The stored row of the same pair.
SamePair(row, other) ==
  row.userId = other.userId /\ row.cardId = other.cardId

\* C10: a review of a card stored as LEARNING leaves the stored easeFactor
\* as it was.
C10_LearningKeepsEase ==
  [][ \A row \in progress : \A after \in progress' :
        ( /\ SamePair(row, after)
          /\ row.cardState = "LEARNING"
          /\ after.reviewCount = row.reviewCount + 1 )
        => after.easeFactor = row.easeFactor ]_vars

\* A review of a LEARNING card has been stored.
C10_Witness ==
  /\ pc[1] = "done"
  /\ call[1].progress.cardState = "LEARNING"
  /\ call[1].rating = "again"
  /\ \E row \in progress :
       /\ row.reviewCount = call[1].progress.reviewCount + 1
       /\ row.easeFactor = call[1].progress.easeFactor

\* The call of process p is on the pair of the row.
CallOn(p, row) ==
  call[p].userId = row.userId /\ call[p].cardId = row.cardId

\* The record with the solvedCount of the legacy progress route set aside.
ReviewFields(row) == [row EXCEPT !.solvedCount = 0]

\* C11: every step that changes the review fields of a stored record is
\* either a reset or the single write of one reviewCard call, which sets the
\* five schedule fields to that call's computed outcome, adds 1 to
\* reviewCount, adds the lapse increment to lapseCount and sets
\* lastReviewDate to the call's time, all together; a call that fails
\* changes nothing, and a record that appears holds the initial values.
C11_ReviewWritesAllOrNothing ==
  [][ /\ \A row \in progress : \A after \in progress' :
           (SamePair(row, after)
              /\ ReviewFields(after) # ReviewFields(row)) =>
             \/ pc' = pc /\ after = NewProgress(row.userId, row.cardId)
             \/ \E p \in Procs :
                  /\ pc[p] = "update" /\ pc'[p] = "done" /\ CallOn(p, row)
                  /\ after.easeFactor = call[p].reviewResult.newEaseFactor
                  /\ after.interval = call[p].reviewResult.newInterval
                  /\ after.dueDate = call[p].reviewResult.newDueDate
                  /\ after.cardState = call[p].reviewResult.newCardState
                  /\ after.learningStep =
                       call[p].reviewResult.newLearningStep
                  /\ after.reviewCount = row.reviewCount + 1
                  /\ after.lapseCount =
                       row.lapseCount
                         + call[p].reviewResult.lapseCountIncrement
                  /\ after.lastReviewDate = call[p].now
      /\ \A after \in progress' :
           (\A row \in progress : ~ SamePair(row, after)) =>
             ReviewFields(after) = NewProgress(after.userId, after.cardId)
      /\ \A p \in Procs :
           (pc[p] # "failed" /\ pc'[p] = "failed") => progress' = progress
    ]_vars

\* A lapse has been written: the counters and the schedule of an 'again'
\* review of a REVIEW card are in the record together.
C11_Witness ==
  \E p \in Procs :
    /\ pc[p] = "done"
    /\ call[p].rating = "again"
    /\ call[p].progress.cardState = "REVIEW"
    /\ \E row \in progress :
         /\ CallOn(p, row)
         /\ row.cardState = "RELEARNING"
         /\ row.interval = 1
         /\ row.dueDate = call[p].now + 1
         /\ row.reviewCount = call[p].progress.reviewCount + 1
         /\ row.lapseCount = call[p].progress.lapseCount + 1
         /\ row.lastReviewDate = call[p].now

\* C12: the write of a successful reviewCard call adds exactly 1 to the
\* stored reviewCount of its pair, whatever other calls on the pair are in
\* flight, and the stored reviewCount goes down only in a reset step.
C12_ReviewCountByOne ==
  [][ \A row \in progress : \A after \in progress' :
        SamePair(row, after) =>
          /\ (\E p \in Procs :
                 pc[p] = "update" /\ pc'[p] = "done" /\ CallOn(p, row))
               => after.reviewCount = row.reviewCount + 1
          /\ after.reviewCount < row.reviewCount =>
               /\ pc' = pc
               /\ after = NewProgress(row.userId, row.cardId)
    ]_vars

\* Two calls that loaded the same record have both written, and the stored
\* count is two more than the count they loaded.
C12_Witness ==
  /\ pc[1] = "done" /\ pc[2] = "done"
  /\ call[1].progress = call[2].progress
  /\ call[1].progress # NoRow
  /\ \E row \in progress :
       /\ CallOn(1, row) /\ CallOn(2, row)
       /\ row.reviewCount = call[1].progress.reviewCount + 2
       /\ call[1].response.reviewCount # call[2].response.reviewCount

\* C13: the write of a reviewCard call adds 1 to the stored lapseCount when
\* the stored cardState just before the write is REVIEW and the rating is
\* 'again', and leaves the stored lapseCount as it is in every other case.
C13_LapseOnlyFromReviewAgain ==
  [][ \A row \in progress : \A after \in progress' : \A p \in Procs :
        (SamePair(row, after) /\ CallOn(p, row)
           /\ pc[p] = "update" /\ pc'[p] = "done") =>
          after.lapseCount =
            (IF row.cardState = "REVIEW" /\ call[p].rating = "again"
             THEN row.lapseCount + 1
             ELSE row.lapseCount)
    ]_vars

\* C14: the table holds at most one record of a (learner, card) pair in
\* every state of every interleaving of reviews, resets and the legacy
\* increment and decrement.
C14_OneRecordPerPair ==
  \A userId \in Users, cardId \in CardIds :
    Cardinality(RowsOf(progress, userId, cardId)) <= 1

\* The insert of a first review was refused by the unique index: the
\* legacy increment had inserted the record of the pair after the review's
\* findUnique found none.
C14_Witness ==
  \E p \in Procs :
    /\ pc[p] = "failed"
    /\ call[p].cardId \in catalog
    /\ \E row \in progress :
         /\ CallOn(p, row)
         /\ row.reviewCount = 0
         /\ row.solvedCount = 1
    /\ Cardinality(RowsOf(progress, call[p].userId, call[p].cardId)) = 1

\* C15: a review of a card that is not in the catalog ends with the
\* not-found status 404, and the table holds no record of the pair.
C15_UnknownCardNotFound ==
  \A p \in Procs :
    (pc[p] = "failed" /\ call[p].cardId \notin catalog) =>
      /\ call[p].status = 404
      /\ RowsOf(progress, call[p].userId, call[p].cardId) = {}

\* C16: a reset with no call in flight leaves, for its pair, exactly the
\* record with cardState NEW, interval 1, easeFactor initialEaseFactor,
\* learningStep 0, reviewCount 0, lapseCount 0 and both dates null, whether
\* the pair had a record or not; the record does not depend on the one
\* before, so a second reset leaves it as it is.
C16_ResetGivesInitialRecord ==
  [][ (pc = [p \in Procs |-> "idle"] /\ pc' = pc /\ progress' # progress) =>
        \E userId \in Users, cardId \in CardIds :
          /\ \A row \in progress' :
               (row.userId # userId \/ row.cardId # cardId) =>
                 row \in progress
          /\ \E after \in progress' :
               /\ RowsOf(progress', userId, cardId) = {after}
               /\ after.cardState = "NEW"
               /\ after.interval = 1
               /\ after.easeFactor = DEFAULT_CONFIG.initialEaseFactor
               /\ after.learningStep = 0
               /\ after.reviewCount = 0
               /\ after.lapseCount = 0
               /\ after.dueDate = NullDate
               /\ after.lastReviewDate = NullDate
               /\ \A before \in RowsOf(progress, userId, cardId) :
                    before # after
    ]_vars

\* No call is in flight and the record of the pair holds the initial
\* values at a later time: a reset has written it.
C16_Witness ==
  /\ pc[1] = "idle"
  /\ clock > 0
  /\ \E row \in progress :
       /\ row.cardState = "NEW" /\ row.reviewCount = 0
       /\ row.lapseCount = 0 /\ row.interval = 1
       /\ row.easeFactor = DEFAULT_CONFIG.initialEaseFactor
       /\ row.dueDate = NullDate /\ row.lastReviewDate = NullDate

\* C17: in every state a stored record has a null dueDate exactly when it
\* is NEW with reviewCount 0; a record reviewed since its creation or last
\* reset has a dueDate.
C17_DueDateNullIffNeverReviewed ==
  \A row \in progress :
    /\ (row.dueDate = NullDate) <=>
         (row.cardState = "NEW" /\ row.reviewCount = 0)
    /\ row.reviewCount >= 1 => row.dueDate # NullDate

\* A review loaded a reviewed record, the record was reset, and the review
\* then wrote: one review since the reset, and a dueDate.
C17_Witness ==
  \E p \in Procs :
    /\ pc[p] = "done"
    /\ call[p].progress.reviewCount >= 1
    /\ \E row \in progress :
         /\ CallOn(p, row)
         /\ row.reviewCount = 1
         /\ row.cardState # "NEW"
         /\ row.dueDate # NullDate

\* C18: in every record that has been reviewed, the stored dueDate is the
\* time of the review plus the stored interval, counted in minutes when the
\* stored cardState is LEARNING or RELEARNING and in days when it is REVIEW.
C18_IntervalUnitMatchesState ==
  \A row \in progress :
    row.lastReviewDate # NullDate =>
      /\ row.cardState \in {"LEARNING", "RELEARNING"} =>
           row.dueDate = row.lastReviewDate + row.interval
      /\ row.cardState = "REVIEW" =>
           row.dueDate = row.lastReviewDate + row.interval * 1440
      /\ row.cardState # "NEW"

\* A record reviewed after time has passed is stored as REVIEW with an
\* interval of several days and the matching dueDate.
C18_Witness ==
  \E row \in progress :
    /\ row.cardState = "REVIEW"
    /\ row.interval > 4
    /\ row.lastReviewDate > 0
    /\ row.dueDate = row.lastReviewDate + row.interval * 1440

\* C19: calculatePriority gives 0 for a null dueDate, and otherwise
\* daysOverdue * 10 + (maxEaseFactor - easeFactor) * 5 + lapseCount * 2,
\* plus 100 for a LEARNING or RELEARNING card, with daysOverdue the whole
\* days from dueDate to now, at least 0 (values in hundredths).
C19_PriorityFormula ==
  calcOut # NoResult =>
    \A k \in {"a", "b"} :
      LET card == calcIn[k]
          elapsed == calcIn.now - card.dueDate
          wholeDays == CHOOSE d \in (0 - 10) .. 10 :
                         d * 1440 <= elapsed /\ elapsed < (d + 1) * 1440
          daysOverdue == IF wholeDays > 0 THEN wholeDays ELSE 0
      IN  calcOut[k] =
            IF card.dueDate = NullDate
            THEN 0
            ELSE daysOverdue * 1000
                   + (DEFAULT_CONFIG.maxEaseFactor - card.easeFactor) * 5
                   + card.lapseCount * 200
                   + (IF card.cardState = "LEARNING"
                         \/ card.cardState = "RELEARNING"
                      THEN 10000 ELSE 0)

\* A RELEARNING card two whole days overdue, at the minimum ease, with two
\* lapses: 20 + 6 + 4 + 100.
C19_Witness ==
  /\ calcOut # NoResult
  /\ calcIn.a.cardState = "RELEARNING"
  /\ calcIn.a.dueDate = 2000 /\ calcIn.now = 5760
  /\ calcIn.a.easeFactor = 130
  /\ calcIn.a.lapseCount = 2
  /\ calcOut.a = 13000

\* The two cards agree on the state and on whether they have a dueDate.
SameKind(a, b) ==
  /\ a.cardState = b.cardState
  /\ (a.dueDate = NullDate) <=> (b.dueDate = NullDate)

\* C20: of two cards that differ in only one of daysOverdue, lapseCount and
\* maxEaseFactor - easeFactor, the one with the larger value has a priority
\* at least that of the other.
C20_PriorityMonotone ==
  (calcOut # NoResult /\ SameKind(calcIn.a, calcIn.b)) =>
    LET a == calcIn.a
        b == calcIn.b
        overdueA == DaysOverdue(a.dueDate, calcIn.now)
        overdueB == DaysOverdue(b.dueDate, calcIn.now)
        gapA == DEFAULT_CONFIG.maxEaseFactor - a.easeFactor
        gapB == DEFAULT_CONFIG.maxEaseFactor - b.easeFactor
    IN  /\ ( /\ a.dueDate # NullDate
             /\ overdueA <= overdueB
             /\ a.lapseCount = b.lapseCount
             /\ gapA = gapB ) => calcOut.a <= calcOut.b
        /\ ( /\ a.lapseCount <= b.lapseCount
             /\ a.dueDate = b.dueDate
             /\ gapA = gapB ) => calcOut.a <= calcOut.b
        /\ ( /\ gapA <= gapB
             /\ a.dueDate = b.dueDate
             /\ a.lapseCount = b.lapseCount ) => calcOut.a <= calcOut.b

\* Two REVIEW cards that differ only in the ease factor: the harder one
\* has the strictly higher priority.
C20_Witness ==
  /\ calcOut # NoResult
  /\ calcIn.a.cardState = "REVIEW" /\ calcIn.b.cardState = "REVIEW"
  /\ calcIn.a.dueDate = 0 /\ calcIn.b.dueDate = 0
  /\ calcIn.a.lapseCount = calcIn.b.lapseCount
  /\ calcIn.a.easeFactor = 250 /\ calcIn.b.easeFactor = 130
  /\ calcOut.a < calcOut.b

\* The query has been answered.
Answered == calcOut # NoResult

\* The progress record of learner 1 for the card of a returned entry.
RowOfEntry(entry) == findUnique(progress, 1, entry.id)

\* C21: a returned card without a progress record is returned only with
\* includeNew and is reported as NEW with ease 2.5, interval 1 and zero
\* counts; a returned card with a record has the record's state, and that
\* state is enabled by its flag.
C21_ReturnedStatesEnabled ==
  Answered =>
    \A i \in 1 .. Len(calcOut.cards) :
      LET entry == calcOut.cards[i]
          row == RowOfEntry(entry)
      IN  IF row = NoRow
          THEN /\ calcIn.includeNew
               /\ entry.cardState = "NEW"
               /\ entry.easeFactor = 250
               /\ entry.interval = 1
               /\ entry.reviewCount = 0
               /\ entry.lapseCount = 0
          ELSE /\ entry.cardState = row.cardState
               /\ row.cardState = "NEW" => calcIn.includeNew
               /\ row.cardState \in {"LEARNING", "RELEARNING"} =>
                    calcIn.includeLearning
               /\ row.cardState = "REVIEW" => calcIn.includeReview

\* With only the learning flag set, a card in learning is returned and
\* the cards without a record and the due REVIEW card are not.
C21_Witness ==
  /\ Answered
  /\ ~ calcIn.includeNew /\ calcIn.includeLearning /\ ~ calcIn.includeReview
  /\ Len(calcOut.cards) = 1
  /\ calcOut.cards[1].cardState = "RELEARNING"
  /\ \E row \in progress : row.cardState = "REVIEW" /\ row.dueDate < clock
  /\ Cardinality(progress) < Cardinality(catalog)

\* C22: no returned LEARNING or RELEARNING card has a dueDate later than
\* the time of the query.
C22_LearningNotBeforeDue ==
  Answered =>
    \A i \in 1 .. Len(calcOut.cards) :
      calcOut.cards[i].cardState \in {"LEARNING", "RELEARNING"} =>
        ~ (clock < RowOfEntry(calcOut.cards[i]).dueDate)

\* The learning flag is set, a LEARNING card due in five minutes was
\* fetched and is not in the answer, and a due one is.
C22_Witness ==
  /\ Answered
  /\ calcIn.includeLearning
  /\ \E row \in progress :
       /\ row.cardState = "LEARNING" /\ row.dueDate > clock
       /\ \E k \in DOMAIN calcIn.fetched : calcIn.fetched[k] = row.cardId
       /\ \A i \in 1 .. Len(calcOut.cards) :
            calcOut.cards[i].id # row.cardId
  /\ \E i \in 1 .. Len(calcOut.cards) :
       /\ calcOut.cards[i].cardState = "LEARNING"
       /\ calcOut.cards[i].dueDate <= clock

\* C23, as claimed: no returned REVIEW card has a dueDate less than one
\* whole day before the time of the query.
C23_ReviewAfterFullDay ==
  Answered =>
    \A i \in 1 .. Len(calcOut.cards) :
      LET row == RowOfEntry(calcOut.cards[i])
      IN  calcOut.cards[i].cardState = "REVIEW" =>
            ~ (row.dueDate <= clock /\ clock < row.dueDate + 1440)

\* C23, amended: no returned REVIEW card has a dueDate later than the time
\* of the query, and a fetched REVIEW card whose dueDate is reached, by
\* however little, is among the candidates: it is returned when the list
\* is shorter than the limit.
C23_ReviewNotBeforeDue ==
  Answered =>
    /\ \A i \in 1 .. Len(calcOut.cards) :
         calcOut.cards[i].cardState = "REVIEW" =>
           RowOfEntry(calcOut.cards[i]).dueDate <= clock
    /\ \A row \in progress :
         ( /\ row.cardState = "REVIEW"
           /\ row.dueDate <= clock
           /\ calcIn.includeReview
           /\ \E k \in DOMAIN calcIn.fetched : calcIn.fetched[k] = row.cardId
           /\ Len(calcOut.cards) < calcIn.limit ) =>
           \E i \in 1 .. Len(calcOut.cards) :
             calcOut.cards[i].id = row.cardId

\* A REVIEW card whose dueDate passed 100 minutes ago is returned, and a
\* fetched one due in 100 minutes is not.
C23_Witness ==
  /\ Answered
  /\ \E i \in 1 .. Len(calcOut.cards) :
       /\ calcOut.cards[i].cardState = "REVIEW"
       /\ calcOut.cards[i].dueDate = clock - 100
  /\ \E row \in progress :
       /\ row.cardState = "REVIEW" /\ row.dueDate = clock + 100
       /\ \E k \in DOMAIN calcIn.fetched : calcIn.fetched[k] = row.cardId
       /\ \A i \in 1 .. Len(calcOut.cards) :
            calcOut.cards[i].id # row.cardId

\* C24: the answer has at most limit entries, holds no card twice, and its
\* priorities do not increase from first to last.
C24_LimitedDistinctOrdered ==
  Answered =>
    LET cards == calcOut.cards
    IN  /\ Len(cards) <= calcIn.limit
        /\ \A i, j \in 1 .. Len(cards) : i # j => cards[i].id # cards[j].id
        /\ \A i, j \in 1 .. Len(cards) :
             i < j => cards[i].priority >= cards[j].priority

\* Three cards survive the filter and the limit is 2: the answer holds the
\* two of highest priority, the higher one first.
C24_Witness ==
  /\ Answered
  /\ calcIn.limit = 2
  /\ calcIn.includeNew /\ calcIn.includeLearning /\ calcIn.includeReview
  /\ Len(calcIn.fetched) = 3
  /\ \A row \in progress : row.dueDate <= clock
  /\ Len(calcOut.cards) = 2
  /\ calcOut.cards[1].priority > calcOut.cards[2].priority
  /\ calcOut.cards[2].priority > 0

\* C30: in the answer every LEARNING or RELEARNING card comes before every
\* REVIEW card and every NEW card.
C30_LearningFirst ==
  Answered =>
    \A i, j \in 1 .. Len(calcOut.cards) :
      ( /\ calcOut.cards[i].cardState \in {"LEARNING", "RELEARNING"}
        /\ calcOut.cards[j].cardState \in {"REVIEW", "NEW"} ) => i < j

\* C26: a review request whose rating is missing or none of again, hard,
\* good, easy ends with status 400 in the step that receives it, the table
\* is as it was, and reviewCard never runs with such a rating.
C26_InvalidRatingRejected ==
  [][ \A p \in Procs :
        /\ (pc[p] = "idle" /\ pc'[p] # "idle"
               /\ call'[p].rating \notin Rating) =>
             /\ pc'[p] = "failed"
             /\ call'[p].status = 400
             /\ progress' = progress
        /\ (pc[p] = "failed" /\ call[p].rating \notin Rating) =>
             progress' = progress
    ]_vars

\* A request with the rating 'perfect' for a card of the catalog whose
\* pair has no record was rejected, and the table is still empty.
C26_Witness ==
  /\ pc[1] = "failed"
  /\ call[1].rating = "perfect"
  /\ call[1].cardId \in catalog
  /\ call[1].status = 400
  /\ progress = {}

\* C27: a review of a record whose stored cardState is none of NEW,
\* LEARNING, REVIEW, RELEARNING fails in the step that loads it, with the
\* generic error status, and no review step changes such a record.
C27_UnknownStateFails ==
  [][ /\ \A p \in Procs : \A row \in progress :
           ( /\ pc[p] = "idle" /\ pc'[p] # "idle"
             /\ call'[p].rating \in Rating
             /\ call'[p].userId = row.userId
             /\ call'[p].cardId = row.cardId
             /\ row.cardState \notin CardState ) =>
             /\ pc'[p] = "failed"
             /\ call'[p].status = 500
             /\ progress' = progress
      /\ \A row \in progress :
           (row.cardState \notin CardState /\ pc' # pc) => row \in progress'
    ]_vars

\* A review with a valid rating of the record of unknown state has failed
\* and the record is the one the review loaded, counters included.
C27_Witness ==
  /\ pc[1] = "failed"
  /\ call[1].rating = "good"
  /\ call[1].status = 500
  /\ call[1].progress \in progress
  /\ call[1].progress.cardState = "SUSPENDED"
  /\ call[1].progress.reviewCount = 2

\* C29: when a review of a card whose stored step is a valid index (or
\* whose state has no step) yields LEARNING or RELEARNING, the new
\* learningStep is a valid zero-based index into the configured
\* learningSteps.
C29_LearningStepValid ==
  ( /\ calcOut # NoResult
    /\ calcIn.state \in {"LEARNING", "RELEARNING"} =>
         HasStep(calcIn.config, calcIn.learningStep)
    /\ calcOut.newCardState \in {"LEARNING", "RELEARNING"} ) =>
    HasStep(calcIn.config, calcOut.newLearningStep)

\* The records of the table that belong to the pair (userId, cardId).
PairRows(table, userId, cardId) ==
  { row \in table : row.userId = userId /\ row.cardId = cardId }

\* C28: a step of a review leaves the records of every pair other than
\* the review's own as they were, a reset changes the records of one pair
\* only, and a review of a pair that ran while other pairs were reviewed
\* and reset ends with the record it would have written alone.
C28_OtherPairsUnchanged ==
  /\ [][ /\ \A p \in Procs : pc'[p] # pc[p] =>
               LET c == IF pc[p] = "idle" THEN call'[p] ELSE call[p]
               IN  \A u \in {1, 2}, k \in catalog :
                     <<u, k>> # <<c.userId, c.cardId>> =>
                       PairRows(progress', u, k) = PairRows(progress, u, k)
         /\ \E u \in {1, 2}, k \in catalog :
              \A v \in {1, 2}, j \in catalog :
                <<v, j>> # <<u, k>> =>
                  PairRows(progress', v, j) = PairRows(progress, v, j)
       ]_vars
  /\ [](pc[1] = "done" =>
          PairRows(progress, ThePair[1], ThePair[2]) =
            {UpdatedRow(call[1].progress, call[1].reviewResult, call[1].now)})

\* A review of the pair has ended while the other two pairs hold records
\* that reviews have changed.
C28_Witness ==
  /\ pc[1] = "done"
  /\ \A pair \in OtherPairs :
       \E row \in PairRows(progress, pair[1], pair[2]) : row.reviewCount > 0
  /\ \E row \in PairRows(progress, ThePair[1], ThePair[2]) :
       row.reviewCount > 0

\* C25: when a review has answered, its nextReviewIntervals give, for every
\* rating, the newInterval of the next review of the stored record with
\* that rating, at every time less than a whole day after the new dueDate.
C25_PreviewIsNextInterval ==
  \A p \in Procs :
    ( /\ pc[p] = "done"
      /\ WithinBounds(call[p].userId, call[p].cardId, MaxSeqReviews) ) =>
      LET row == findUnique(progress, call[p].userId, call[p].cardId)
      IN  \A r \in Rating, t \in {clock} \cup {clock + d : d \in TickSet} :
            DaysLate(row, t) = 0 =>
              call[p].response.nextReviewIntervals[r] =
                ReviewResultOf(row, r, t).newInterval

\* C32: the write of a review never stores NEW; it stores LEARNING only
\* over NEW or LEARNING, and RELEARNING only over REVIEW rated 'again' or
\* over RELEARNING; so a record that is REVIEW or RELEARNING stays one of
\* the two under every review.
C32_StateTransitions ==
  [][ \A p \in Procs : \A row \in progress : \A after \in progress' :
        ( /\ pc[p] = "update" /\ pc'[p] = "done"
          /\ CallOn(p, row) /\ SamePair(row, after) ) =>
          /\ after.cardState # "NEW"
          /\ after.cardState = "LEARNING" =>
               row.cardState \in {"NEW", "LEARNING"}
          /\ after.cardState = "RELEARNING" =>
               \/ row.cardState = "REVIEW" /\ call[p].rating = "again"
               \/ row.cardState = "RELEARNING"
          /\ row.cardState \in {"REVIEW", "RELEARNING"} =>
               after.cardState \in {"REVIEW", "RELEARNING"}
    ]_vars

\* A REVIEW card rated 'again' has been stored as RELEARNING, after two
\* earlier reviews.
C32_Witness ==
  /\ pc[1] = "done"
  /\ call[1].rating = "again"
  /\ call[1].progress.cardState = "REVIEW"
  /\ call[1].progress.reviewCount >= 2
  /\ \E row \in progress :
       /\ CallOn(1, row)
       /\ row.cardState = "RELEARNING"
       /\ row.reviewCount = call[1].progress.reviewCount + 1

\* C33: after as many consecutive 'good' reviews as the configuration has
\* learning steps, or more, the card is in REVIEW.
C33_GoodReachesReview ==
  calcOut.reviews >= Len(calcIn.config.learningSteps) =>
    calcIn.state = "REVIEW"

\* The interval a late review starts from: Math.max(1, currentInterval +
\* Math.floor(daysLate * 0.25)).
AdjustedInterval(interval, daysLate) ==
  Max(1, interval + FloorQuarter(daysLate))

\* C37: for a REVIEW card under the default configuration the intervals
\* offered for the ratings are ordered: the interval the review starts
\* from, late days included, is at most that of 'hard', which is at most
\* that of 'good', which is at most that of 'easy'.
C37_IntervalsOrdered ==
  ( /\ calcOpts # NoResult
    /\ calcIn.config = DEFAULT_CONFIG
    /\ calcIn.state = "REVIEW" ) =>
    /\ AdjustedInterval(calcIn.interval, calcIn.daysLate) <= calcOpts["hard"]
    /\ calcOpts["hard"] <= calcOpts["good"]
    /\ calcOpts["good"] <= calcOpts["easy"]

\* The options of a REVIEW card at the lowest ease factor, 8 days late,
\* have been computed.
C37_Witness ==
  /\ calcOpts # NoResult
  /\ calcIn.config = DEFAULT_CONFIG
  /\ calcIn.state = "REVIEW"
  /\ calcIn.easeFactor = DEFAULT_CONFIG.minEaseFactor
  /\ calcIn.daysLate = 8
  /\ calcIn.interval = 45
  /\ calcOpts["hard"] = 56

\* The late days the checks of lateness range over.
MaxLate == 9

\* Whole days from dueDate to now; 0 without a dueDate or before it.
WholeDaysLate(dueDate, now) ==
  IF dueDate = NullDate \/ now <= dueDate
  THEN 0
  ELSE CHOOSE d \in 0 .. (now - dueDate) :
         /\ d * MinutesPerDay <= now - dueDate
         /\ now - dueDate < (d + 1) * MinutesPerDay

\* The calculator's result for the record a call loaded, at a lateness.
ResultAtLateness(c, daysLate) ==
  calculateReview(DEFAULT_CONFIG, c.progress.cardState, c.progress.interval,
                  c.progress.easeFactor, c.progress.learningStep,
                  c.rating, daysLate, c.now)

\* C39: the result a review computes is the calculator's at the whole days
\* elapsed since the loaded dueDate, 0 when there is none or it lies ahead;
\* for a REVIEW card rated hard, good or easy the interval does not
\* decrease as the lateness grows; for a NEW, LEARNING or RELEARNING card
\* the result is the same at every lateness.
C39_Lateness ==
  \A p \in Procs :
    call[p].reviewResult # NoResult =>
      LET c    == call[p]
          late == WholeDaysLate(c.progress.dueDate, c.now)
      IN  /\ late >= 0
          /\ c.reviewResult = ResultAtLateness(c, late)
          /\ (c.progress.cardState = "REVIEW" /\ c.rating # "again") =>
               \A d \in 0 .. MaxLate, e \in 0 .. MaxLate :
                 d <= e =>
                   ResultAtLateness(c, d).newInterval
                     <= ResultAtLateness(c, e).newInterval
          /\ c.progress.cardState # "REVIEW" =>
               \A d \in 0 .. MaxLate : ResultAtLateness(c, d) = c.reviewResult

\* A 'good' review of a REVIEW card four days past its dueDate has been
\* stored with a longer interval than an on-time review gives.
C39_Witness ==
  /\ pc[1] = "done"
  /\ call[1].rating = "good"
  /\ call[1].progress.cardState = "REVIEW"
  /\ WholeDaysLate(call[1].progress.dueDate, call[1].now) = 4
  /\ call[1].reviewResult.newInterval
       > ResultAtLateness(call[1], 0).newInterval

\* C38: every stored record has 0 <= lapseCount <= reviewCount, whatever
\* the interleaving of the steps of reviews and of resets.
C38_LapsesWithinReviews ==
  \A row \in progress :
    /\ 0 <= row.lapseCount
    /\ row.lapseCount <= row.reviewCount

\* A record whose every review counted a lapse: two overlapping reviews
\* rated 'again' loaded the same REVIEW record, after a first review.
C38_Witness ==
  \E row \in progress :
    /\ row.reviewCount = 3
    /\ row.lapseCount = 2
    /\ pc[1] = "done" /\ pc[2] = "done"
    /\ call[1].progress = call[2].progress
    /\ call[1].progress.cardState = "REVIEW"
    /\ call[1].rating = "again" /\ call[2].rating = "again"

\* C31: when the write of a review lands on a record that a reset put
\* back to the NEW defaults after the review had loaded it, the record it
\* leaves is the outcome of that review on the freshly reset card.
C31_ResetThenReviewIsSerial ==
  [][ \A p \in Procs : \A row \in progress : \A after \in progress' :
        ( /\ pc[p] = "update" /\ pc'[p] = "done"
          /\ CallOn(p, row) /\ SamePair(row, after)
          /\ row = NewProgress(row.userId, row.cardId)
          /\ call[p].progress # row ) =>
          after = UpdatedRow(row,
                             ReviewResultOf(row, call[p].rating, call[p].now),
                             call[p].now)
    ]_vars

Qualifies(cardId) ==
  LET row == findUnique(progress, 1, cardId)
  IN  IF row = NoRow
      THEN calcIn.includeNew
      ELSE /\ row.cardState \in StateFilter(calcIn.includeNew,
                                            calcIn.includeLearning,
                                            calcIn.includeReview)
           /\ (row.dueDate = NullDate \/ clock >= row.dueDate)

\* The priority of the card's entry.
PriorityOfCard(cardId) ==
  LET row == findUnique(progress, 1, cardId)
  IN  IF row = NoRow
      THEN NewDueCard(cardId, clock).priority
      ELSE ProgressDueCard(cardId, row, clock).priority

\* C35: every card of the catalog that qualifies is in the answer when
\* fewer than limit qualifying cards have a strictly higher priority.
C35_QualifyingCardReturned ==
  Answered =>
    \A c \in catalog :
      ( /\ Qualifies(c)
        /\ Cardinality({ d \in catalog :
                           /\ Qualifies(d)
                           /\ PriorityOfCard(d) > PriorityOfCard(c) })
             < calcIn.limit ) =>
        \E i \in 1 .. Len(calcOut.cards) : calcOut.cards[i].id = c

\* C34: a reviewed record has a dueDate later than the time of its last
\* review, and a query of the due cards made before that dueDate does not
\* return the card.
C34_ReviewedCardLeavesDueSet ==
  /\ [](\A row \in progress :
          row.reviewCount > 0 =>
            /\ row.dueDate # NullDate
            /\ row.dueDate > row.lastReviewDate)
  /\ [][ (calcOut = NoResult /\ calcOut' # NoResult) =>
           \A row \in progress :
             (row.userId = 1 /\ row.reviewCount > 0 /\ clock < row.dueDate) =>
               \A i \in 1 .. Len(calcOut'.cards) :
                 calcOut'.cards[i].id # row.cardId
       ]_vars

\* A query with every flag set, four days after a review and before the
\* dueDate it stored, has answered without the card.
C34_Witness ==
  /\ Answered
  /\ calcIn.includeNew /\ calcIn.includeLearning /\ calcIn.includeReview
  /\ calcOut.cards = << >>
  /\ \E row \in progress :
       /\ row.cardId = "c1"
       /\ row.cardState = "REVIEW"
       /\ row.reviewCount > 0
       /\ row.lastReviewDate < clock
       /\ clock < row.dueDate

====
